---------------------------- MODULE Spec2Model ----------------------------
(***************************************************************************)
(* State-machine model of WaybackPress: the media fetcher                  *)
(* (waybackpress/fetch.py) and the post validator                          *)
(* (waybackpress/validate.py), with the files they persist.                *)
(*                                                                         *)
(* The asyncio event loop is cooperative: a coroutine runs without         *)
(* interruption between two awaits.  Every action below is one such        *)
(* stretch of code.  Two stretches are split further, because a process    *)
(* kill can stop them half way and the disk keeps what was written:        *)
(* rewriting a state file (open(..., 'w') truncates, then the lines        *)
(* follow) and saving a downloaded asset (open(..., 'wb'), then write).    *)
(***************************************************************************)
EXTENDS Integers, Sequences, FiniteSets, TLC

(***************************************************************************)
(* Bounds of the model.                                                    *)
(***************************************************************************)
\* passes of the media fetcher that one behaviour may start
MaxPasses == 3
\* config.concurrency is chosen in 1..MaxConcurrency
MaxConcurrency == 2
\* captures of one asset the archive holds, in the multi-pass specification
MaxCaptures == 1

\* candidate URLs in the discovered list of a validation run
MaxCandidates == 3
\* validation runs that one behaviour may start; a list of MaxCandidates URLs
\* is validated once
MaxValidationRuns == 2
\* fetch.py:322 checkpoints the ledger every 50 completed assets
\* ("if i % 50 == 0").  The model runs a handful of assets, so the interval
\* is scaled down to let a checkpoint happen inside a pass.
CheckpointEvery == 2
\* validate.py:751 checkpoints the report every 50 URLs; scaled down likewise.
ValidateCheckpointEvery == 2
\* how many times the user runs the discovery phase
MaxDiscoverRuns == 3
\* the most lines the archive's listing of the domain has in a behaviour of
\* discovery alone
MaxListing == 3

(***************************************************************************)
(* Program constants.                                                      *)
(***************************************************************************)
\* fetch.py:169  max_attempts: int = 5, passed as the index query's limit
max_attempts == 5

(***************************************************************************)
(* Asset URLs, as urlparse splits them into netloc, path and query.  A     *)
(* path is a text of tokens: "/", "%2F" (an encoded "/"), "%61" (an        *)
(* encoded "a"), and pieces of names.                                      *)
(***************************************************************************)
URL(h, p, q) == [netloc |-> h, path |-> p, query |-> q]

\* two of the three URLs differ only in their query string
FlatURLs ==
    { URL("cdn", <<"/", "a", ".png">>, ""), URL("cdn", <<"/", "a", ".png">>, "v=2"),
      URL("cdn", <<"/", "b", ".css">>, "") }

\* the path of the first URL is a directory of the second's path
NestedURLs ==
    { URL("cdn", <<"/", "img">>, ""), URL("cdn", <<"/", "img", "/", "a", ".png">>, "") }

AssetURLs == FlatURLs \cup NestedURLs

\* utils.py:188  parsed.path.lstrip('/')
RECURSIVE LStripSlash(_)
LStripSlash(s) == IF s # <<>> /\ Head(s) = "/" THEN LStripSlash(Tail(s)) ELSE s

\* utils.py:191  unquote(path): every %XX becomes the character it encodes
unquote(s) ==
    [i \in 1..Len(s) |-> IF s[i] = "%2F" THEN "/" ELSE IF s[i] = "%61" THEN "a" ELSE s[i]]

\* pathlib: the parts of a relative path text; empty parts (a doubled or a
\* trailing "/") are dropped
RECURSIVE PathParts(_, _)
PathParts(s, part) ==
    IF s = <<>> THEN (IF part = <<>> THEN <<>> ELSE <<part>>)
    ELSE IF Head(s) = "/"
         THEN (IF part = <<>> THEN <<>> ELSE <<part>>) \o PathParts(Tail(s), <<>>)
         ELSE PathParts(Tail(s), Append(part, Head(s)))

(***************************************************************************)
(* utils.get_local_path_for_url (utils.py:174-199):                        *)
(* base_dir / netloc / unquote(path.lstrip('/')), as the parts below       *)
(* base_dir.  The query string and the scheme take no part.  A path text   *)
(* that starts with "/" after decoding is absolute, and pathlib's "/" then *)
(* drops base_dir and netloc: the parts start at the root, <<"/">>.        *)
(***************************************************************************)
get_local_path_for_url(url) ==
    LET text == unquote(LStripSlash(url.path))
    IN IF text # <<>> /\ Head(text) = "/"
       THEN << <<"/">> >> \o PathParts(text, <<>>)
       ELSE << <<url.netloc>> >> \o PathParts(text, <<>>)

LocalPaths == { get_local_path_for_url(u) : u \in AssetURLs }

\* the local paths of assets that are directories on the way to the path p
Ancestors(p) == { q \in LocalPaths : Len(q) < Len(p) /\ SubSeq(p, 1, Len(q)) = q }

\* The order in which the archive index lists an asset's captures; the
\* entries are capture timestamps.  The list is not sorted, so that a
\* fetcher that reorders it is distinguishable from one that does not.
IndexOrder == <<30, 10, 50, 20, 40, 60>>

VARIABLES
    media_urls,     \* self.media_urls: the asset URLs the accepted pages refer to
    archiveMax,     \* environment: the most captures the archive holds of an asset
    passLimit,      \* environment: how many times the user runs the fetch phase
    concurrency,    \* config.concurrency, the semaphore's width
    discoverLimit,  \* environment: how many times the user runs a discovery command
    listed,         \* environment: the URLs of the domain the archive may list
    listingMax,     \* environment: the most lines its listing of the domain has
    indexFaults,    \* environment: the archive index may answer with a non-200
                    \* status or fail in this behaviour
    media_fetched,  \* config.media_fetched
    passNumber,     \* how many fetch passes have been started
    mainPc,         \* where fetch_all stands
    previous,       \* load_previous_results(): asset URL -> status
    to_fetch,       \* the assets this pass creates tasks for
    task,           \* per asset URL: the download_asset coroutine and its result
    doneQ,          \* finished tasks fetch_all has not collected yet (as_completed)
    results,        \* self.results
    ledgerExists,   \* media_report.csv exists
    ledgerLines,    \* its lines: "header", then one row per result
    saveFrom,       \* save_results under way: "loop" or "final" (who called), else "none"
    ledgerSaved,    \* history: the ledger as the last completed save_results left
                    \* it, or as the pass found it
    files,          \* local path -> "absent" | "partial" | "complete" | "dir"
    okBefore,       \* history: assets a ledger loaded by some pass showed as OK
    v_urls,         \* the discovered-URL list, as load_discovered_urls returns it
    v_run,          \* how many validation runs have been started
    v_pc,           \* where validate_all / validate_url stands
    v_i,            \* enumerate(urls, 1): the position of the URL in work
    v_results,      \* PostValidator.results
    seen_hashes,    \* PostValidator.seen_hashes
    html,           \* slug -> the cached page html/<slug>.html, or NoPage
    v_report,       \* validation_report.csv: its rows
    v_valid_posts,  \* valid_posts.tsv: its rows
    validated,      \* config.validated
    v_net,          \* history: the run's network events, "request" or "sleep"
    v_index,        \* history: how the last index lookup for the URL in work was
                    \* answered, <<who asked, kind of answer>>, or <<>>
    urls_file_exists, \* discovered_urls.tsv exists
    d_pc,           \* where discover stands
    d_run,          \* how many discovery runs have been started
    discovered,     \* config.discovered
    d_index,        \* history: how the index query of the last discovery run
                    \* was answered, or "none"
    d_single,       \* discover_single's argument while it runs, else <<>>
    d_count,        \* what the last discover / discover_single returned, or -1
    d_listing,      \* history: all_urls, what query_cdx returned to the last discover
    u_url,          \* utils: the URL a function is applied to, in its parts
    u_domain,       \* utils: config.domain
    u_norm,         \* utils: normalize_url(u), then normalize_url of that
    u_post,         \* utils: is_post_url(u, domain), or "none"
    a_urls,         \* utils: the two asset URLs a local path is asked for
    a_paths         \* utils: their local paths, once computed

\* fixed by Init
envVars == <<media_urls, archiveMax, passLimit, concurrency, discoverLimit, listed,
            listingMax, indexFaults>>

fetchVars == <<envVars, media_fetched, passNumber, mainPc, previous, to_fetch,
               task, doneQ, results, ledgerExists, ledgerLines, ledgerSaved, saveFrom,
               files, okBefore>>

valVars == <<v_urls, v_run, v_pc, v_i, v_results, seen_hashes, html, v_report,
             v_valid_posts, validated, v_net, v_index>>

\* the URL discoverer's side of the disk
discVars == <<urls_file_exists, d_pc, d_run, discovered, d_index, d_single, d_count,
             d_listing>>

\* the arguments and results of the URL functions of utils.py
utilVars == <<u_url, u_domain, u_norm, u_post, a_urls, a_paths>>

vars == <<fetchVars, valVars, discVars, utilVars>>

Min(a, b) == IF a < b THEN a ELSE b

(***************************************************************************)
(* The commands (cli.py) run one at a time, each in a process of its own.  *)
(***************************************************************************)
FetcherRunning == mainPc \in {"running", "saving", "saving_rows"}

ValidatorRunning ==
    v_pc \in {"next", "cdx", "dl_sleep", "dl_get", "json_cdx", "json_sleep", "json_get",
              "final"}

DiscovererRunning == d_pc \in {"cdx", "single_cdx"}

NoCommandRunning == ~FetcherRunning /\ ~ValidatorRunning /\ ~DiscovererRunning

(***************************************************************************)
(* The archive index's answer to "?url=...&output=json&limit=<limit>"      *)
(* (fetch.py:141-146): the asset's captures in the index's order, at most  *)
(* limit of them; the archive holds between 0 and archiveMax captures.     *)
(***************************************************************************)
IndexResponses(limit) ==
    { SubSeq(IndexOrder, 1, Min(limit, m)) : m \in 0..archiveMax }

(***************************************************************************)
(* What can come back for an index query: a response with status 200 and   *)
(* rows; and, where the environment has index faults, a response with      *)
(* another status, whatever its body, or no response at all (a transport   *)
(* error or a timeout raised by session.get).                              *)
(***************************************************************************)
IndexAnswers(rowLists) ==
    { [kind |-> "ok", rows |-> ts] : ts \in rowLists }
    \cup (IF indexFaults
          THEN { [kind |-> "non200", rows |-> ts] : ts \in rowLists }
               \cup { [kind |-> "error", rows |-> <<>>] }
          ELSE {})

\* history: what kind of answer it was
AnswerKind(resp) ==
    IF resp.kind = "ok" THEN (IF resp.rows = <<>> THEN "empty" ELSE "rows") ELSE resp.kind

\* mutant: the status of the response is not looked at
get_snapshots_any_status(resp) == resp.rows

\* get_snapshots (fetch.py:148-163): the timestamps of the rows of a 200
\* response; [] for another status and for an exception
get_snapshots(resp) == IF resp.kind = "ok" THEN resp.rows ELSE <<>>

\* the bodies a point lookup (limit=1) can get: no row, or the first row
PointRows == { SubSeq(IndexOrder, 1, m) : m \in 0..1 }

\* find_snapshot (validate.py:217-239, 494-513): a snapshot exists (TRUE)
\* for a 200 response with a row; None (FALSE) for a 200 response without
\* rows, for another status and for an exception
find_snapshot(resp) == resp.kind = "ok" /\ resp.rows # <<>>

\* mutant: the status of the listing response is not looked at
query_cdx_any_status(resp) == resp.rows

\* query_cdx (discover.py:47-61): the lines of a 200 response; [] for
\* another status and for an exception
query_cdx(resp) == IF resp.kind = "ok" THEN resp.rows ELSE <<>>

(***************************************************************************)
(* download_asset's result dict (fetch.py:185-192) and the coroutine's     *)
(* position.  log is the history of what the task did on the network:      *)
(* <<"cdx">> an index query, <<"sleep">> a completed asyncio.sleep(delay),  *)
(* <<"get", ts>> a download request for the capture ts; index is the       *)
(* history of how the task's index query was answered.  A                  *)
(* success_timestamp of 0 stands for None.                                 *)
(***************************************************************************)
NoTask ==
    [pc |-> "none", status |-> "FAIL", snapshots_tried |-> 0,
     snapshots_available |-> 0, success_timestamp |-> 0, size |-> FALSE,
     timestamps |-> <<>>, log |-> <<>>, index |-> "none"]

NewTask == [NoTask EXCEPT !.pc = "pending"]

\* the row csv.DictWriter writes for a result (fetch.py:271-279)
Row(u, t) ==
    [asset_url |-> u, local_path |-> get_local_path_for_url(u), status |-> t.status,
     snapshots_tried |-> t.snapshots_tried,
     snapshots_available |-> t.snapshots_available,
     success_timestamp |-> t.success_timestamp, size |-> t.size]

\* tasks past "async with self.semaphore" that have not returned
InFlight ==
    { u \in AssetURLs : task[u].pc \in {"cdx", "sleep", "get", "reading", "writing"} }

\* mutant: the semaphore is one slot too wide
SlotFreeOneTooMany == Cardinality(InFlight) <= concurrency

\* asyncio.Semaphore(config.concurrency) (fetch.py:35) admits a task at
\* "async with self.semaphore" (fetch.py:182) while fewer than concurrency hold it
SlotFree == Cardinality(InFlight) < concurrency

\* a task is between open(local_path, 'wb') and the end of the write: no
\* other coroutine runs until it leaves that stretch
Writing == \E u \in AssetURLs : task[u].pc = "writing"

\* the event loop may run a coroutine
LoopRuns == mainPc = "running" /\ ~Writing

(***************************************************************************)
(* load_previous_results (fetch.py:243-262): csv.DictReader takes the      *)
(* first line as the header; each later row sets previous[asset_url], a    *)
(* later row for the same URL overwriting an earlier one.                  *)
(***************************************************************************)
RECURSIVE LoadRows(_, _)
LoadRows(lines, acc) ==
    IF lines = <<>> THEN acc
    ELSE LoadRows(Tail(lines), [acc EXCEPT ![Head(lines).asset_url] = Head(lines).status])

load_previous_results ==
    IF ~ledgerExists \/ Len(ledgerLines) < 2
    THEN [u \in AssetURLs |-> "none"]
    ELSE LoadRows(Tail(ledgerLines), [u \in AssetURLs |-> "none"])

(***************************************************************************)
(* discover_all_media (fetch.py:105-122): the media URLs of the accepted   *)
(* posts whose cached HTML exists.  In the model every accepted page       *)
(* refers to all of media_urls.                                            *)
(***************************************************************************)
\* mutant: valid_posts.tsv is taken to be there
posts_file_exists_unchecked == TRUE

\* fetch.py:41  posts_file.exists(): valid_posts.tsv has at least its header
posts_file_exists == v_valid_posts # <<>>

MediaFound ==
    IF \E k \in 2..Len(v_valid_posts) :
          "absent" \notin DOMAIN html[v_valid_posts[k].local_path]
    THEN media_urls
    ELSE {}

\* fetch.py:300  to_fetch = [url for url in self.media_urls if previous.get(url) != 'OK']
ToFetch(prev) == { u \in media_urls : prev[u] # "OK" }

(***************************************************************************)
(* fetch_all up to the creation of the tasks (fetch.py:289-315), run by a  *)
(* new MediaFetcher (fetch.py:30-35).  Without valid_posts.tsv             *)
(* load_valid_posts raises FileNotFoundError (fetch.py:41-44) and the      *)
(* command ends; with no media URL found fetch_all returns at once         *)
(* (fetch.py:292-294).  With nothing to fetch the loop body never runs and *)
(* the final save follows at once.                                         *)
(***************************************************************************)
StartPass ==
    /\ mainPc \in {"idle", "finished", "raised", "killed", "aborted", "no_media"}
    /\ NoCommandRunning
    /\ passNumber < passLimit
    /\ passNumber' = passNumber + 1
    /\ IF ~posts_file_exists \/ MediaFound = {}
       THEN /\ mainPc' = IF ~posts_file_exists THEN "aborted" ELSE "no_media"
            /\ previous' = [u \in AssetURLs |-> "none"]
            /\ to_fetch' = {}
            /\ task' = [u \in AssetURLs |-> NoTask]
            /\ saveFrom' = "none"
            /\ UNCHANGED <<okBefore, ledgerSaved>>
       ELSE LET prev == load_previous_results
                tf   == ToFetch(prev)
            IN /\ previous' = prev
               /\ to_fetch' = tf
               /\ okBefore' = okBefore \cup { u \in AssetURLs : prev[u] = "OK" }
               /\ task' = [u \in AssetURLs |-> IF u \in tf THEN NewTask ELSE NoTask]
               /\ IF tf = {}
                  THEN mainPc' = "saving" /\ saveFrom' = "final"
                  ELSE mainPc' = "running" /\ saveFrom' = "none"
               /\ ledgerSaved' = ledgerLines
    /\ doneQ' = <<>>
    /\ results' = <<>>
    /\ UNCHANGED <<utilVars, discVars, valVars, envVars, media_fetched, ledgerExists, ledgerLines, files>>

\* utils.py:197  full_path.parent.mkdir(parents=True, exist_ok=True) raises
\* when a directory on the way is a file
ParentIsFile(u) ==
    \E q \in Ancestors(get_local_path_for_url(u)) : files[q] \in {"partial", "complete"}

\* utils.py:197, fetch.py:224  the directories mkdir leaves behind
MakeParents(u) ==
    [p \in LocalPaths |-> IF p \in Ancestors(get_local_path_for_url(u)) THEN "dir" ELSE files[p]]

\* mutant: the check of the local file is left out
LocalFileExistsUnchecked(u) == FALSE

\* fetch.py:194-197  the local file exists: the task returns SKIP
LocalFileExists(u) == files[get_local_path_for_url(u)] # "absent"

(***************************************************************************)
(* download_asset from the semaphore to its first await (fetch.py:182-200):*)
(* the task takes an admission slot and get_local_path_for_url makes the   *)
(* parent directories of the local path; where one of them is a file,      *)
(* mkdir raises FileExistsError, outside any try, and the task ends with   *)
(* that exception.  If the local path exists the task returns SKIP,        *)
(* otherwise it sends the index query.                                     *)
(***************************************************************************)
Acquire(u) ==
    /\ LoopRuns
    /\ task[u].pc = "pending"
    /\ SlotFree
    /\ IF ParentIsFile(u)
       THEN /\ task' = [task EXCEPT ![u].pc = "raised"]
            /\ doneQ' = Append(doneQ, u)
            /\ files' = files
       ELSE /\ files' = MakeParents(u)
            /\ IF LocalFileExists(u)
               THEN /\ task' = [task EXCEPT ![u].pc = "done", ![u].status = "SKIP"]
                    /\ doneQ' = Append(doneQ, u)
               ELSE /\ task' = [task EXCEPT ![u].pc = "cdx", ![u].log = Append(@, <<"cdx">>)]
                    /\ doneQ' = doneQ
    /\ UNCHANGED <<utilVars, discVars, valVars, envVars, media_fetched, passNumber, mainPc, previous, to_fetch,
                   results, ledgerExists, ledgerLines, ledgerSaved, saveFrom, okBefore>>

(***************************************************************************)
(* get_snapshots returns (fetch.py:148-163, 200-209): the timestamps of    *)
(* the index's rows, or [] for a non-200 answer, a short answer or an      *)
(* exception.  No timestamps: the task returns FAIL.  Otherwise the loop   *)
(* starts with the first timestamp and waits in asyncio.sleep.             *)
(***************************************************************************)
CdxResponse(u) ==
    /\ LoopRuns
    /\ task[u].pc = "cdx"
    /\ \E resp \in IndexAnswers(IndexResponses(max_attempts)) :
          LET ts == get_snapshots(resp)
          IN
          IF ts = <<>>
          THEN /\ task' = [task EXCEPT ![u].pc = "done", ![u].index = AnswerKind(resp)]
               /\ doneQ' = Append(doneQ, u)
          ELSE /\ task' = [task EXCEPT ![u].pc = "sleep",
                                       ![u].index = AnswerKind(resp),
                                       ![u].timestamps = ts,
                                       ![u].snapshots_available = Len(ts),
                                       ![u].snapshots_tried = 1]
               /\ doneQ' = doneQ
    /\ UNCHANGED <<utilVars, discVars, valVars, envVars, media_fetched, passNumber, mainPc, previous, to_fetch,
                   results, ledgerExists, ledgerLines, ledgerSaved, saveFrom, files, okBefore>>

\* mutant: the request is sent without the wait
PaceLogNoSleep(log) == log

\* fetch.py:214  await asyncio.sleep(self.config.delay), before each download
PaceLog(log) == Append(log, <<"sleep">>)

\* fetch.py:208  for i, timestamp in enumerate(timestamps), with
\* result['snapshots_tried'] = i + 1
CurrentTimestamp(t) == t.timestamps[t.snapshots_tried]

(***************************************************************************)
(* asyncio.sleep returns and the download request for the current          *)
(* timestamp is sent (fetch.py:211-219).                                   *)
(***************************************************************************)
SleepDone(u) ==
    /\ LoopRuns
    /\ task[u].pc = "sleep"
    /\ task' = [task EXCEPT
                  ![u].pc = "get",
                  ![u].log = Append(PaceLog(@), <<"get", CurrentTimestamp(task[u])>>)]
    /\ UNCHANGED <<utilVars, discVars, valVars, envVars, media_fetched, passNumber, mainPc, previous, to_fetch,
                   doneQ, results, ledgerExists, ledgerLines, ledgerSaved, saveFrom, files, okBefore>>

\* mutant: the loop stops one capture short
NextAttemptStopsEarly(u, t) ==
    IF t.snapshots_tried + 1 < Len(t.timestamps)
    THEN /\ task' = [task EXCEPT ![u] = [t EXCEPT !.pc = "sleep",
                                                  !.snapshots_tried = @ + 1]]
         /\ doneQ' = doneQ
    ELSE /\ task' = [task EXCEPT ![u] = [t EXCEPT !.pc = "done"]]
         /\ doneQ' = Append(doneQ, u)

(***************************************************************************)
(* The attempt did not save the asset: the for loop goes on to the next    *)
(* timestamp (fetch.py:208-209, 235-237), and after the last one the task  *)
(* returns its result with status FAIL (fetch.py:239-241).                 *)
(***************************************************************************)
NextAttempt(u, t) ==
    IF t.snapshots_tried < Len(t.timestamps)
    THEN /\ task' = [task EXCEPT ![u] = [t EXCEPT !.pc = "sleep",
                                                  !.snapshots_tried = @ + 1]]
         /\ doneQ' = doneQ
    ELSE /\ task' = [task EXCEPT ![u] = [t EXCEPT !.pc = "done"]]
         /\ doneQ' = Append(doneQ, u)

(***************************************************************************)
(* session.get ends (fetch.py:216-220, 235-237): with a response whose     *)
(* status is 200, and the task goes on to await response.read(); with a    *)
(* response of another status; or with an exception (a transport error, a  *)
(* timeout), which "except Exception" catches.                             *)
(***************************************************************************)
GetResponse(u) ==
    /\ LoopRuns
    /\ task[u].pc = "get"
    /\ \E outcome \in {"status200", "non200", "exception"} :
          IF outcome = "status200"
          THEN /\ task' = [task EXCEPT ![u].pc = "reading"]
               /\ doneQ' = doneQ
          ELSE NextAttempt(u, task[u])
    /\ UNCHANGED <<utilVars, discVars, valVars, envVars, media_fetched, passNumber, mainPc, previous, to_fetch,
                   results, ledgerExists, ledgerLines, ledgerSaved, saveFrom, files,
                   okBefore>>

(***************************************************************************)
(* response.read() ends (fetch.py:221-225, 235-237): with the body, and    *)
(* open(local_path, 'wb') creates or truncates the local file; or with an  *)
(* exception (the connection breaks, the 30 s timeout passes), which       *)
(* "except Exception" catches.  So it catches the error of mkdir where a   *)
(* parent directory is a file by now, and of open where the local path is  *)
(* a directory by now.                                                     *)
(***************************************************************************)
BodyRead(u) ==
    /\ LoopRuns
    /\ task[u].pc = "reading"
    /\ \E outcome \in {"body", "exception"} :
          IF outcome = "body" /\ ~ParentIsFile(u) /\ files[get_local_path_for_url(u)] # "dir"
          THEN /\ task' = [task EXCEPT ![u].pc = "writing"]
               /\ files' = [MakeParents(u) EXCEPT ![get_local_path_for_url(u)] = "partial"]
               /\ doneQ' = doneQ
          ELSE /\ NextAttempt(u, task[u])
               /\ files' = files
    /\ UNCHANGED <<utilVars, discVars, valVars, envVars, media_fetched, passNumber, mainPc, previous, to_fetch,
                   results, ledgerExists, ledgerLines, ledgerSaved, saveFrom, okBefore>>

\* mutant: the result names the first capture of the list, not the one saved
SuccessResultFirstCapture(t) ==
    [t EXCEPT !.pc = "done", !.status = "OK",
              !.success_timestamp = t.timestamps[1], !.size = TRUE]

\* fetch.py:228-233  the result of a saved download
SuccessResult(t) ==
    [t EXCEPT !.pc = "done", !.status = "OK",
              !.success_timestamp = CurrentTimestamp(t), !.size = TRUE]

(***************************************************************************)
(* f.write(content) and the close succeed (fetch.py:226-233): the result   *)
(* is OK with the timestamp of this attempt and the task returns.          *)
(***************************************************************************)
WriteDone(u) ==
    /\ mainPc = "running"
    /\ task[u].pc = "writing"
    /\ files' = [files EXCEPT ![get_local_path_for_url(u)] = "complete"]
    /\ task' = [task EXCEPT ![u] = SuccessResult(task[u])]
    /\ doneQ' = Append(doneQ, u)
    /\ UNCHANGED <<utilVars, discVars, valVars, envVars, media_fetched, passNumber, mainPc, previous, to_fetch,
                   results, ledgerExists, ledgerLines, ledgerSaved, saveFrom, okBefore>>

(***************************************************************************)
(* f.write(content) raises (an OSError such as a full disk): the file      *)
(* stays as far as it was written, "except Exception" catches the error    *)
(* and the loop continues (fetch.py:225-226, 235-237).                     *)
(***************************************************************************)
WriteFails(u) ==
    /\ mainPc = "running"
    /\ task[u].pc = "writing"
    /\ NextAttempt(u, task[u])
    /\ UNCHANGED <<utilVars, discVars, valVars, envVars, media_fetched, passNumber, mainPc, previous, to_fetch,
                   results, ledgerExists, ledgerLines, ledgerSaved, saveFrom, files, okBefore>>

(***************************************************************************)
(* fetch_all's loop body (fetch.py:318-328): the next finished task's      *)
(* result is appended; every CheckpointEvery results save_results is       *)
(* called.  After the last result the final save follows (fetch.py:331).   *)
(* Where the task ended with an exception, "await coro" raises it in       *)
(* fetch_all: the command ends, the other tasks are cancelled, nothing is  *)
(* saved.                                                                  *)
(***************************************************************************)
Collect ==
    /\ LoopRuns
    /\ doneQ # <<>>
    /\ LET u == Head(doneQ)
           rs == Append(results, Row(u, task[u]))
       IN IF task[u].pc = "raised"
          THEN /\ mainPc' = "raised"
               /\ saveFrom' = "none"
               /\ task' = [a \in AssetURLs |-> NoTask]
               /\ doneQ' = <<>>
               /\ results' = <<>>
          ELSE /\ results' = rs
               /\ doneQ' = Tail(doneQ)
               /\ task' = task
               /\ IF Len(rs) % CheckpointEvery = 0
                  THEN mainPc' = "saving" /\ saveFrom' = "loop"
                  ELSE IF Len(rs) = Cardinality(to_fetch)
                       THEN mainPc' = "saving" /\ saveFrom' = "final"
                       ELSE mainPc' = "running" /\ saveFrom' = "none"
    /\ UNCHANGED <<utilVars, discVars, valVars, envVars, media_fetched, passNumber, previous, to_fetch,
                   ledgerExists, ledgerLines, ledgerSaved, files, okBefore>>

\* mutant: only the header is written
LedgerContentHeaderOnly(rs) == <<"header">>

\* what save_results writes (fetch.py:270-279): the header, then self.results
LedgerContent(rs) == <<"header">> \o rs

(***************************************************************************)
(* save_results (fetch.py:264-279).  open(report_file, 'w') truncates the  *)
(* ledger in place; the header and the rows follow.                        *)
(***************************************************************************)
SaveOpen ==
    /\ mainPc = "saving"
    /\ mainPc' = "saving_rows"
    /\ ledgerExists' = TRUE
    /\ ledgerLines' = <<>>
    /\ UNCHANGED <<utilVars, discVars, valVars, envVars, media_fetched, passNumber, previous, to_fetch, task,
                   doneQ, results, ledgerSaved, saveFrom, files, okBefore>>

SaveWriteLine ==
    /\ mainPc = "saving_rows"
    /\ Len(ledgerLines) < Len(LedgerContent(results))
    /\ ledgerLines' = SubSeq(LedgerContent(results), 1, Len(ledgerLines) + 1)
    /\ UNCHANGED <<utilVars, discVars, valVars, envVars, media_fetched, passNumber, mainPc, previous, to_fetch,
                   task, doneQ, results, ledgerExists, ledgerSaved, saveFrom, files,
                   okBefore>>

(***************************************************************************)
(* save_results returns.  From the loop: back to the loop, or on to the    *)
(* final save when that was the last result.  From the final save: the     *)
(* statistics (fetch.py:334-345), where success/total raises               *)
(* ZeroDivisionError for an empty result list, and otherwise the           *)
(* media_fetched flag (fetch.py:348-352).                                  *)
(***************************************************************************)
SaveReturn ==
    /\ mainPc = "saving_rows"
    /\ Len(ledgerLines) = Len(LedgerContent(results))
    /\ IF saveFrom = "loop"
       THEN /\ IF Len(results) = Cardinality(to_fetch)
               THEN mainPc' = "saving" /\ saveFrom' = "final"
               ELSE mainPc' = "running" /\ saveFrom' = "none"
            /\ media_fetched' = media_fetched
       ELSE /\ saveFrom' = "none"
            /\ IF Len(results) = 0
               THEN mainPc' = "raised" /\ media_fetched' = media_fetched
               ELSE mainPc' = "finished" /\ media_fetched' = TRUE
    /\ ledgerSaved' = ledgerLines
    /\ UNCHANGED <<utilVars, discVars, valVars, envVars, passNumber, previous, to_fetch, task, doneQ, results,
                   ledgerExists, ledgerLines, files, okBefore>>

(***************************************************************************)
(* The process is killed or interrupted during a pass: everything in       *)
(* memory is gone, the disk keeps what was written.                        *)
(***************************************************************************)
Kill ==
    /\ mainPc \in {"running", "saving", "saving_rows"}
    /\ mainPc' = "killed"
    /\ saveFrom' = "none"
    /\ task' = [u \in AssetURLs |-> NoTask]
    /\ doneQ' = <<>>
    /\ results' = <<>>
    /\ to_fetch' = {}
    /\ previous' = [u \in AssetURLs |-> "none"]
    /\ UNCHANGED <<utilVars, discVars, valVars, envVars, media_fetched, passNumber, ledgerExists, ledgerLines,
                   ledgerSaved, files, okBefore>>

(***************************************************************************)
(*                 The post validator (validate.py)                        *)
(***************************************************************************)
\* A candidate URL of the site: its path segments and whether it ends in "/".
Candidate(segs, slash) == [segs |-> segs, slash |-> slash]

\* The candidate URLs of the model, in ascending string order, which is the
\* order save_urls writes them in (discover.py:123) and therefore the order
\* load_discovered_urls returns them in.  The first and the third end in the
\* same slug.
CandidateOrder ==
    << Candidate(<<"2020", "01", "15", "hello">>, TRUE),
       Candidate(<<"archive", "old">>, TRUE),
       Candidate(<<"hello">>, TRUE),
       Candidate(<<"notes">>, TRUE) >>

\* stand-ins for \d{4} and \d{2}
FourDigits == {"2020", "2021"}
TwoDigits == {"01", "02", "15", "16"}

\* utils.extract_slug_from_url: both patterns capture the last path segment
extract_slug_from_url(url) == url.segs[Len(url.segs)]

\* validate.py:608-609  local_path = html/<slug>.html
LocalHtmlPath(url) == extract_slug_from_url(url)

Slugs == { extract_slug_from_url(CandidateOrder[k]) : k \in 1..Len(CandidateOrder) }

\* validate.py:665  re.search(r'/(category|tag|author|archive|page)/|/\d{4}/?$|/\d{4}/\d{2}/?$', url)
IsArchivePageURL(url) ==
    LET n == Len(url.segs)
    IN \/ \E k \in 1..n :
             /\ url.segs[k] \in {"category", "tag", "author", "archive", "page"}
             /\ (k < n \/ url.slash)
       \/ url.segs[n] \in FourDigits
       \/ n >= 2 /\ url.segs[n - 1] \in FourDigits /\ url.segs[n] \in TwoDigits

\* Texts an extraction can yield; "" stands for None or an empty string.
Texts == {"", "T1", "T2"}

\* An archived page, as far as extraction reads it: the text trafilatura
\* finds in it (validate.py:277-303) and whether its body classes carry a
\* post id (validate.py:131-155).
Pages == [text : Texts, postid : BOOLEAN]

NoPage == [text |-> "", postid |-> FALSE, absent |-> TRUE]

\* a cached file that open(..., encoding='utf-8').read() cannot decode
\* (validate.py:629-631): what an interrupted write (validate.py:535-537)
\* leaves when the file ends inside a multi-byte character
Unreadable == [text |-> "", postid |-> FALSE, unreadable |-> TRUE]

\* utils.compute_content_hash: the SHA1 digest of the content
compute_content_hash(content) == <<"sha1", content>>

\* validate.py:592-605  the result dict validate_url starts from
NewRecord(url) ==
    [url |-> url, valid |-> FALSE, reason |-> "", content |-> "",
     extraction_method |-> "none", local_path |-> "", post_type |-> "post"]

\* extract_all without the REST API (validate.py:97-129): trafilatura's text
Extracted(page) ==
    [content |-> page.text,
     extraction_method |-> IF page.text # "" THEN "trafilatura" ELSE "none"]

\* extract_all returning parse_wp_json's dict (validate.py:88-91, 266-275)
ExtractedFromApi(content) == [content |-> content, extraction_method |-> "wp-json"]

\* mutant: the fingerprint is never looked up
IsDuplicateNever(content, seen) == FALSE

\* validate.py:675-677  content_hash in self.seen_hashes
IsDuplicate(content, seen) == compute_content_hash(content) \in seen

\* mutant: the content rules run before the URL rule
apply_heuristics_content_first(rec, seen) ==
    IF rec.content = "" THEN [rec EXCEPT !.reason = "no_content"]
    ELSE IF IsDuplicate(rec.content, seen) THEN [rec EXCEPT !.reason = "duplicate_content"]
    ELSE IF IsArchivePageURL(rec.url) THEN [rec EXCEPT !.reason = "archive_page"]
    ELSE [rec EXCEPT !.valid = TRUE, !.reason = "ok"]

\* apply_heuristics (validate.py:656-689): the record it returns
apply_heuristics(rec, seen) ==
    IF IsArchivePageURL(rec.url) THEN [rec EXCEPT !.reason = "archive_page"]
    ELSE IF rec.content = "" THEN [rec EXCEPT !.reason = "no_content"]
    ELSE IF IsDuplicate(rec.content, seen) THEN [rec EXCEPT !.reason = "duplicate_content"]
    ELSE [rec EXCEPT !.valid = TRUE, !.reason = "ok"]

\* validate.py:687  self.seen_hashes.add(content_hash), for an accepted record
SeenAfter(rec, seen) ==
    IF rec.valid THEN seen \cup {compute_content_hash(rec.content)} ELSE seen

\* validate.py:717  valid_posts = [r for r in self.results if r['valid']]
ValidPosts(rs) == SelectSeq(rs, LAMBDA r : r.valid)

\* validate.py:698-711  a row of the report: the fieldnames, which leave out
\* the content and the post type
ReportRow(r) ==
    [url |-> r.url, valid |-> r.valid, reason |-> r.reason,
     extraction_method |-> r.extraction_method, local_path |-> r.local_path]

\* validate.py:703-711  the rows save_results writes to validation_report.csv
ReportRows(rs) == [k \in 1..Len(rs) |-> ReportRow(rs[k])]

\* validate.py:723  f.write(f"{result['url']}\t{result['local_path']}\n")
ValidPostRow(r) == [url |-> r.url, local_path |-> r.local_path]

\* validate.py:720-723  valid_posts.tsv as save_results writes it: the header
\* line, then a row per accepted record
ValidPostsFile(rs) ==
    <<"header">> \o [k \in 1..Len(ValidPosts(rs)) |-> ValidPostRow(ValidPosts(rs)[k])]

\* mutant: the URL without a snapshot is reported as a failed download
NoSnapshotRecordAsDownloadFailed(url) == [NewRecord(url) EXCEPT !.reason = "download_failed"]

\* validate.py:613-616  the result of a URL without a snapshot
NoSnapshotRecord(url) == [NewRecord(url) EXCEPT !.reason = "no_snapshot"]

CurrentURL == v_urls[v_i]

\* mutant: the cache is never consulted
HtmlCachedNever(url) == FALSE

\* validate.py:611  local_path.exists()
HtmlCached(url) == html[LocalHtmlPath(url)] # NoPage

\* mutant: no checkpoint inside the loop
CheckpointDueNever(i) == FALSE

\* validate.py:751  if i % 50 == 0
CheckpointDue(i) == i % ValidateCheckpointEvery = 0

\* the validation runs a behaviour may start over its list
RunLimit == IF Len(v_urls) >= MaxCandidates THEN 1 ELSE MaxValidationRuns

(***************************************************************************)
(* validate_url returns rec for the URL in work and validate_all's loop    *)
(* body goes on (validate.py:747-752): the result is appended and every    *)
(* ValidateCheckpointEvery URLs save_results rewrites both files.          *)
(***************************************************************************)
UrlDone(rec) ==
    LET rs == Append(v_results, rec)
    IN /\ v_results' = rs
       /\ seen_hashes' = SeenAfter(rec, seen_hashes)
       /\ v_i' = v_i + 1
       /\ v_pc' = IF v_i = Len(v_urls) THEN "final" ELSE "next"
       /\ IF CheckpointDue(v_i)
          THEN v_report' = ReportRows(rs) /\ v_valid_posts' = ValidPostsFile(rs)
          ELSE UNCHANGED <<v_report, v_valid_posts>>

\* mutant: the local path is not put into the result
JudgedWithoutPath(url, ex) ==
    apply_heuristics([NewRecord(url) EXCEPT !.content = ex.content,
                                            !.extraction_method = ex.extraction_method],
                     seen_hashes)

\* validate.py:649-654  the extracted fields go into the result, then the heuristics
Judged(url, ex) ==
    apply_heuristics([NewRecord(url) EXCEPT !.content = ex.content,
                                            !.extraction_method = ex.extraction_method,
                                            !.local_path = LocalHtmlPath(url)],
                     seen_hashes)

(***************************************************************************)
(* validate_url once the page's HTML is on disk (validate.py:628-654): a   *)
(* file that cannot be read gives a read_failed record; otherwise          *)
(* extract_all (validate.py:78-91): with a post id in the body classes the *)
(* REST API is tried and find_snapshot sends an index query; without one   *)
(* the page's own text is judged.                                          *)
(***************************************************************************)
AfterHtml(page) ==
    IF "unreadable" \in DOMAIN page
    THEN /\ UrlDone([NewRecord(CurrentURL) EXCEPT !.reason = "read_failed"])
         /\ v_net' = v_net
    ELSE
    IF page.postid
    THEN /\ v_pc' = "json_cdx"
         /\ v_net' = Append(v_net, "request")
         /\ UNCHANGED <<v_i, v_results, seen_hashes, v_report, v_valid_posts>>
    ELSE /\ UrlDone(Judged(CurrentURL, Extracted(page)))
         /\ v_net' = v_net

(***************************************************************************)
(* validate_all up to the loop (validate.py:731-740), by a new             *)
(* PostValidator (validate.py:473-478).  Without discovered_urls.tsv       *)
(* load_discovered_urls raises FileNotFoundError (validate.py:484-487) and *)
(* the command ends.                                                       *)
(***************************************************************************)
V_Start ==
    /\ v_pc \in {"idle", "finished", "raised", "killed", "aborted"}
    /\ NoCommandRunning
    /\ v_run < RunLimit
    /\ v_run' = v_run + 1
    /\ v_results' = <<>>
    /\ seen_hashes' = {}
    /\ v_i' = 1
    /\ v_net' = <<>>
    /\ v_index' = <<>>
    /\ v_pc' = IF ~urls_file_exists THEN "aborted"
              ELSE IF v_urls = <<>> THEN "final" ELSE "next"
    /\ UNCHANGED <<utilVars, discVars, fetchVars, v_urls, html, v_report, v_valid_posts, validated>>

(***************************************************************************)
(* validate_url up to its first await (validate.py:592-613): with no       *)
(* cached HTML find_snapshot sends an index query; with cached HTML the    *)
(* page is read and extracted.                                             *)
(***************************************************************************)
V_BeginUrl ==
    /\ v_pc = "next"
    /\ IF ~HtmlCached(CurrentURL)
       THEN /\ v_pc' = "cdx"
            /\ v_net' = Append(v_net, "request")
            /\ UNCHANGED <<v_i, v_results, seen_hashes, v_report, v_valid_posts>>
       ELSE AfterHtml(html[LocalHtmlPath(CurrentURL)])
    /\ v_index' = <<>>
    /\ UNCHANGED <<utilVars, discVars, fetchVars, v_urls, v_run, html, validated>>

(***************************************************************************)
(* find_snapshot returns (validate.py:494-513, 613-619): None for no       *)
(* match, a non-200 answer or an exception, and the record is no_snapshot; *)
(* otherwise download_html starts and waits in asyncio.sleep               *)
(* (validate.py:523-528).                                                  *)
(***************************************************************************)
V_CdxResponse ==
    /\ v_pc = "cdx"
    /\ \E resp \in IndexAnswers(PointRows) :
          /\ v_index' = <<"page", AnswerKind(resp)>>
          /\ IF find_snapshot(resp)
             THEN /\ v_pc' = "dl_sleep"
                  /\ UNCHANGED <<v_i, v_results, seen_hashes, v_report, v_valid_posts>>
             ELSE UrlDone(NoSnapshotRecord(CurrentURL))
    /\ UNCHANGED <<utilVars, discVars, fetchVars, v_urls, v_run, html, validated, v_net>>

\* validate.py:528  asyncio.sleep(delay) returns and the download request is sent
V_DownloadSleepDone ==
    /\ v_pc = "dl_sleep"
    /\ v_pc' = "dl_get"
    /\ v_net' = v_net \o <<"sleep", "request">>
    /\ v_index' = <<>>
    /\ UNCHANGED <<utilVars, discVars, fetchVars, v_urls, v_run, v_i, v_results, seen_hashes, html, v_report,
                   v_valid_posts, validated>>

(***************************************************************************)
(* The download ends (validate.py:530-545, 619-626): with status 200 the   *)
(* page is written to the cache and validate_url goes on; otherwise the    *)
(* record is download_failed.                                              *)
(***************************************************************************)
V_DownloadResponse ==
    /\ v_pc = "dl_get"
    /\ \/ \E page \in Pages :
             /\ html' = [html EXCEPT ![LocalHtmlPath(CurrentURL)] = page]
             /\ AfterHtml(page)
       \/ /\ UrlDone([NewRecord(CurrentURL) EXCEPT !.reason = "download_failed"])
          /\ UNCHANGED <<html, v_net>>
    /\ v_index' = <<>>
    /\ UNCHANGED <<utilVars, discVars, fetchVars, v_urls, v_run, validated>>

(***************************************************************************)
(* try_wp_json's find_snapshot returns (validate.py:201-206): None, and    *)
(* extraction falls back to the page's text; or a snapshot, and the task   *)
(* waits in asyncio.sleep.                                                 *)
(***************************************************************************)
V_JsonCdxResponse ==
    /\ v_pc = "json_cdx"
    /\ \E resp \in IndexAnswers(PointRows) :
          /\ v_index' = <<"api", AnswerKind(resp)>>
          /\ IF find_snapshot(resp)
             THEN /\ v_pc' = "json_sleep"
                  /\ UNCHANGED <<v_i, v_results, seen_hashes, v_report, v_valid_posts>>
             ELSE UrlDone(Judged(CurrentURL, Extracted(html[LocalHtmlPath(CurrentURL)])))
    /\ UNCHANGED <<utilVars, discVars, fetchVars, v_urls, v_run, html, validated, v_net>>

\* validate.py:206-207  asyncio.sleep(delay) returns and the API request is sent
V_JsonSleepDone ==
    /\ v_pc = "json_sleep"
    /\ v_pc' = "json_get"
    /\ v_net' = v_net \o <<"sleep", "request">>
    /\ v_index' = <<>>
    /\ UNCHANGED <<utilVars, discVars, fetchVars, v_urls, v_run, v_i, v_results, seen_hashes, html, v_report,
                   v_valid_posts, validated>>

(***************************************************************************)
(* The API request ends (validate.py:207-215, 88-91): with JSON data, and  *)
(* parse_wp_json's fields are the extraction; or with a non-200 status, an *)
(* exception or empty data, and extraction falls back to the page's text;  *)
(* or with JSON data that is not the object parse_wp_json expects (a       *)
(* non-empty list, a "title" that is a string), and the AttributeError of  *)
(* data.get(...) (validate.py:249, 267) leaves parse_wp_json, extract_all, *)
(* validate_url and validate_all, none of which catches it.                *)
(***************************************************************************)
V_JsonResponse ==
    /\ v_pc = "json_get"
    /\ \/ \E c \in Texts : UrlDone(Judged(CurrentURL, ExtractedFromApi(c)))
       \/ UrlDone(Judged(CurrentURL, Extracted(html[LocalHtmlPath(CurrentURL)])))
       \/ /\ v_pc' = "raised"
          /\ UNCHANGED <<v_i, v_results, seen_hashes, v_report, v_valid_posts>>
    /\ v_index' = <<>>
    /\ UNCHANGED <<utilVars, discVars, fetchVars, v_urls, v_run, html, validated, v_net>>

(***************************************************************************)
(* The final save and the flag (validate.py:755-760), then the summary     *)
(* (validate.py:765), whose valid_count/len(urls) raises ZeroDivisionError *)
(* for an empty list.                                                      *)
(***************************************************************************)
V_FinalSave ==
    /\ v_pc = "final"
    /\ v_report' = ReportRows(v_results)
    /\ v_valid_posts' = ValidPostsFile(v_results)
    /\ validated' = TRUE
    /\ v_pc' = IF v_urls = <<>> THEN "raised" ELSE "finished"
    /\ v_index' = <<>>
    /\ UNCHANGED <<utilVars, discVars, fetchVars, v_urls, v_run, v_i, v_results, seen_hashes, html, v_net>>

\* the process is killed or interrupted during a validation run
V_Kill ==
    /\ ValidatorRunning
    /\ v_pc' = "killed"
    /\ v_results' = <<>>
    /\ seen_hashes' = {}
    /\ v_i' = 1
    /\ v_net' = <<>>
    /\ v_index' = <<>>
    /\ UNCHANGED <<utilVars, discVars, fetchVars, v_urls, v_run, html, v_report, v_valid_posts, validated>>

(***************************************************************************)
(* URLs as text (utils.py).  A URL string is a sequence of tokens: a       *)
(* scheme, "www.", a host, "/", a path segment, a query string or a        *)
(* fragment.  The regular expressions of utils.py cut a string only at     *)
(* token borders.                                                          *)
(***************************************************************************)
Schemes == {"http://", "https://"}

\* what [?#].*$ starts at
QueryTokens == {"?x=1", "#top"}

\* stand-in for \d+
Digits == FourDigits \cup TwoDigits \cup {"2"}

\* file names that end in .jpg, .jpeg, .png, .gif, .css, .js, .xml or .json
MediaFiles == {"pic.jpg", "style.css"}

Hosts == {"example.com", "other.org", "example.com.evil.org"}

\* the path segments of the model
Segments ==
    {"2020", "01", "15", "16", "2", "my-post", "hello", "notes", "a", "b", "old", "news",
     "atom", "feed", "amp", "page", "category", "tag", "author", "search", "archive"}
    \cup MediaFiles

\* [^/]+ in one piece: any token but the slash
NotSlash == Segments \cup Hosts \cup Schemes \cup QueryTokens \cup {"www."}

\* "/s1/s2/.../sn"
RECURSIVE PathText(_)
PathText(segs) ==
    IF segs = <<>> THEN <<>> ELSE <<"/", Head(segs)>> \o PathText(Tail(segs))

\* the text of a URL given in its parts
UrlText(u) == u.prefix \o <<u.host>> \o PathText(u.segs) \o u.trail \o u.tail

\* re.sub(r'^https?://', '', url)  (utils.py:25)
StripScheme(s) == IF s # <<>> /\ Head(s) \in Schemes THEN Tail(s) ELSE s

\* re.sub(r'^www\.', '', url)  (utils.py:28)
StripWww(s) == IF s # <<>> /\ Head(s) = "www." THEN Tail(s) ELSE s

\* url.rstrip('/')  (utils.py:31)
RECURSIVE RStripSlash(_)
RStripSlash(s) ==
    IF s # <<>> /\ s[Len(s)] = "/" THEN RStripSlash(SubSeq(s, 1, Len(s) - 1)) ELSE s

\* re.sub(r'[?#].*$', '', url)  (utils.py:34)
StripQuery(s) ==
    LET at == { i \in 1..Len(s) : s[i] \in QueryTokens }
    IN IF at = {} THEN s
       ELSE SubSeq(s, 1, (CHOOSE i \in at : \A j \in at : i <= j) - 1)

\* utils.normalize_url (utils.py:14-36)
normalize_url(s) == StripQuery(RStripSlash(StripWww(StripScheme(s))))

\* str.startswith for two hosts of the model
HasPrefix(tok, pre) == tok = pre \/ (pre = "example.com" /\ tok = "example.com.evil.org")

\* normalized.startswith(domain.replace('www.', ''))  (utils.py:217)
StartsWithDomain(s, domain) ==
    LET d == SelectSeq(domain, LAMBDA t : t # "www.")
        n == Len(d)
    IN /\ Len(s) >= n
       /\ \A i \in 1..(n - 1) : s[i] = d[i]
       /\ n > 0 => HasPrefix(s[n], d[n])

\* re.search(r'/c1/c2/.../ck/?$', s), each ci a class of whole segments
EndsWith(s, classes) ==
    LET n == Len(s)
        e == IF n > 0 /\ s[n] = "/" THEN n - 1 ELSE n
        k == Len(classes)
    IN /\ e - 2 * k >= 0
       /\ \A j \in 1..k : /\ s[e - 2 * (k - j)] \in classes[j]
                          /\ s[e - 2 * (k - j) - 1] = "/"

\* re.search(r'/name/', s)
HasInnerSegment(s, name) ==
    \E i \in 1..(Len(s) - 2) : s[i] = "/" /\ s[i + 1] = name /\ s[i + 2] = "/"

\* utils.py:221-237  one of exclude_patterns matches
Excluded(s) ==
    \/ EndsWith(s, <<{"feed"}>>)
    \/ EndsWith(s, <<{"amp"}>>)
    \/ EndsWith(s, <<{"page"}, Digits>>)
    \/ \E name \in {"category", "tag", "author", "search"} : HasInnerSegment(s, name)
    \/ EndsWith(s, <<FourDigits>>)
    \/ EndsWith(s, <<FourDigits, TwoDigits>>)
    \/ EndsWith(s, <<FourDigits, TwoDigits, TwoDigits>>)
    \/ s # <<>> /\ s[Len(s)] \in MediaFiles

\* utils.py:240-247  one of post_patterns matches
PostPattern(s) ==
    \/ EndsWith(s, <<FourDigits, TwoDigits, TwoDigits, NotSlash>>)
    \/ EndsWith(s, <<NotSlash>>)

\* utils.is_post_url (utils.py:202-249)
is_post_url(s, domain) ==
    LET normalized == normalize_url(s)
    IN /\ StartsWithDomain(normalized, domain)
       /\ ~Excluded(normalized)
       /\ PostPattern(normalized)

\* no URL
NoUrl == [prefix |-> <<>>, host |-> "", segs |-> <<>>, trail |-> <<>>, tail |-> <<>>]

\* normalize_url is called on a URL, then on its own result
U_Normalize ==
    /\ u_url # NoUrl
    /\ Len(u_norm) < 2
    /\ u_norm' = Append(u_norm, normalize_url(IF u_norm = <<>> THEN UrlText(u_url)
                                              ELSE u_norm[Len(u_norm)]))
    /\ UNCHANGED <<fetchVars, valVars, discVars, u_url, u_domain, u_post, a_urls, a_paths>>

\* is_post_url is called on a URL
U_Classify ==
    /\ u_url # NoUrl
    /\ u_post = "none"
    /\ u_post' = IF is_post_url(UrlText(u_url), u_domain) THEN "yes" ELSE "no"
    /\ UNCHANGED <<fetchVars, valVars, discVars, u_url, u_domain, u_norm, a_urls, a_paths>>

(***************************************************************************)
(* The discovery phase (discover.py).  The archive's listing of the domain *)
(* is a sequence of URLs of the site; a URL of the site is written         *)
(* http://example.com/<path>, with or without the trailing slash.          *)
(***************************************************************************)
\* config.domain
Domain == <<"example.com">>

\* the text of a candidate URL
UrlString(c) ==
    UrlText([prefix |-> <<"http://">>, host |-> "example.com", segs |-> c.segs,
             trail |-> IF c.slash THEN <<"/">> ELSE <<>>, tail |-> <<>>])

\* the URLs of the model in ascending string order, for sorted()
SortedURLs ==
    << Candidate(<<"2020", "01", "15", "a">>, TRUE),
       Candidate(<<"2020", "01", "15", "hello">>, TRUE),
       Candidate(<<"2020", "01", "16", "b">>, TRUE),
       Candidate(<<"archive", "old">>, TRUE),
       Candidate(<<"category", "news">>, TRUE),
       Candidate(<<"feed">>, TRUE),
       Candidate(<<"hello">>, FALSE),
       Candidate(<<"hello">>, TRUE),
       Candidate(<<"notes">>, TRUE) >>

\* the listings of at most n lines
RECURSIVE Listings(_)
Listings(n) ==
    IF n = 0 THEN {<<>>}
    ELSE Listings(n - 1)
         \cup { Append(l, u) : l \in { x \in Listings(n - 1) : Len(x) = n - 1 },
                               u \in listed }

\* the elements of a list
Elements(urls) == { urls[k] : k \in 1..Len(urls) }

\* mutant: every URL of the listing is kept
filter_post_urls_all(urls) == urls

\* filter_post_urls (discover.py:63-81)
filter_post_urls(urls) == SelectSeq(urls, LAMBDA c : is_post_url(UrlString(c), Domain))

\* deduplicate_urls (discover.py:83-108): the first URL of each normalized form
deduplicate_urls(urls) ==
    LET Keep(k) == \A j \in 1..(k - 1) :
                       normalize_url(UrlString(urls[j])) # normalize_url(UrlString(urls[k]))
        kept    == { k \in 1..Len(urls) : Keep(k) }
        Rank(k) == Cardinality({ j \in kept : j <= k })
    IN [r \in 1..Cardinality(kept) |-> urls[CHOOSE k \in kept : Rank(k) = r]]

\* mutant: the lines are written in the order given
save_urls_unsorted(urls) == urls

\* save_urls (discover.py:121-124): the lines after the header, sorted(urls)
save_urls(urls) == SelectSeq(SortedURLs, LAMBDA u : u \in Elements(urls))

\* the body of the index's JSON answer (output=json): "[]" without captures
JsonText(rows) ==
    IF rows = <<>> THEN <<"[", "]">>
    ELSE <<"[", "[", "header", "]", ",", "[", "row", "]", "]">>

\* query_single_url (discover.py:149-166): status 200 and a body with a "["
\* in it; False for another status and for an exception
query_single_url(resp) ==
    /\ resp.kind = "ok"
    /\ LET text == JsonText(resp.rows)
       IN text # <<>> /\ \E i \in 1..Len(text) : text[i] = "["

\* mutant: the new URL replaces the list
merge_single_replacing(existing, url) == {url}

\* discover.py:191-205  existing_urls, a set of the file's lines, and the new URL
merge_single(existing, url) == existing \cup {url}

(***************************************************************************)
(* The discover command (cli.py:19-30) up to its first await.              *)
(* init_project (config.py:112-135) builds a new ProjectConfig, whose      *)
(* phase flags are all False, and saves it as config.json; then discover   *)
(* (discover.py:226-232), by a new URLDiscoverer, sends the domain query.  *)
(***************************************************************************)
D_Start ==
    /\ d_pc \in {"idle", "finished", "nothing", "killed"}
    /\ NoCommandRunning
    /\ d_run < discoverLimit
    /\ d_run' = d_run + 1
    /\ d_pc' = "cdx"
    /\ d_index' = "none"
    /\ d_single' = <<>>
    /\ d_count' = -1
    /\ d_listing' = <<>>
    /\ discovered' = FALSE
    /\ validated' = FALSE
    /\ media_fetched' = FALSE
    /\ UNCHANGED <<utilVars, envVars, passNumber, mainPc, previous, to_fetch, task, doneQ,
                   results, ledgerExists, ledgerLines, ledgerSaved, saveFrom, files, okBefore,
                   v_urls, v_run, v_pc, v_i, v_results, seen_hashes, html, v_report,
                   v_valid_posts, v_net, v_index, urls_file_exists>>

(***************************************************************************)
(* query_cdx returns (discover.py:232-254).  Without URLs discover returns *)
(* 0 and writes nothing; otherwise the post URLs are filtered,             *)
(* deduplicated and saved, the flag is set, and their number is returned.  *)
(***************************************************************************)
D_CdxResponse ==
    /\ d_pc = "cdx"
    /\ \E resp \in IndexAnswers(Listings(listingMax)) :
          LET all_urls    == query_cdx(resp)
              unique_urls == deduplicate_urls(filter_post_urls(all_urls))
          IN /\ d_index' = AnswerKind(resp)
             /\ d_listing' = all_urls
             /\ IF all_urls = <<>>
                THEN /\ d_pc' = "nothing"
                     /\ d_count' = 0
                     /\ UNCHANGED <<v_urls, urls_file_exists, discovered>>
                ELSE /\ d_pc' = "finished"
                     /\ v_urls' = save_urls(unique_urls)
                     /\ urls_file_exists' = TRUE
                     /\ discovered' = TRUE
                     /\ d_count' = Len(unique_urls)
    /\ UNCHANGED <<utilVars, fetchVars, v_run, v_pc, v_i, v_results, seen_hashes, html, v_report,
                   v_valid_posts, validated, v_net, v_index, d_run, d_single>>

\* discover_single (discover.py:178-184) by a new URLDiscoverer: the point
\* lookup for the URL is sent
DS_Start(url) ==
    /\ d_pc \in {"idle", "finished", "nothing", "killed"}
    /\ NoCommandRunning
    /\ d_run < discoverLimit
    /\ d_run' = d_run + 1
    /\ d_pc' = "single_cdx"
    /\ d_index' = "none"
    /\ d_single' = <<url>>
    /\ d_count' = -1
    /\ d_listing' = <<>>
    /\ UNCHANGED <<utilVars, fetchVars, valVars, urls_file_exists, discovered>>

(***************************************************************************)
(* query_single_url returns (discover.py:184-217).  Not found:             *)
(* discover_single returns 0.  Found: the lines of the existing file and   *)
(* the URL are saved, the flag is set, and 1 is returned.                  *)
(***************************************************************************)
DS_CdxResponse ==
    /\ d_pc = "single_cdx"
    /\ \E resp \in IndexAnswers(PointRows) :
          /\ d_index' = AnswerKind(resp)
          /\ IF ~query_single_url(resp)
             THEN /\ d_pc' = "nothing"
                  /\ d_count' = 0
                  /\ UNCHANGED <<v_urls, urls_file_exists, discovered>>
             ELSE LET existing_urls == IF urls_file_exists THEN Elements(v_urls) ELSE {}
                      merged == merge_single(existing_urls, d_single[1])
                  IN /\ d_pc' = "finished"
                     /\ v_urls' = SelectSeq(SortedURLs, LAMBDA u : u \in merged)
                     /\ urls_file_exists' = TRUE
                     /\ discovered' = TRUE
                     /\ d_count' = 1
    /\ UNCHANGED <<utilVars, fetchVars, v_run, v_pc, v_i, v_results, seen_hashes, html, v_report,
                   v_valid_posts, validated, v_net, v_index, d_run, d_single,
                   d_listing>>

\* the process is killed or interrupted during discovery
D_Kill ==
    /\ DiscovererRunning
    /\ d_pc' = "killed"
    /\ UNCHANGED <<utilVars, fetchVars, valVars, urls_file_exists, d_run, discovered, d_index,
                   d_single, d_count, d_listing>>

\* the sorted lists of at most n candidate URLs
RECURSIVE SortedLists(_, _)
SortedLists(k, n) ==
    IF k > Len(CandidateOrder) \/ n = 0 THEN {<<>>}
    ELSE SortedLists(k + 1, n)
         \cup { <<CandidateOrder[k]>> \o rest : rest \in SortedLists(k + 1, n - 1) }

InitValidator ==
    /\ v_run = 0
    /\ v_pc = "idle"
    /\ v_i = 1
    /\ v_results = <<>>
    /\ seen_hashes = {}
    /\ html = [g \in Slugs |-> NoPage]
    /\ v_report = <<>>
    /\ v_valid_posts = <<>>
    /\ validated = FALSE
    /\ v_net = <<>>
    /\ v_index = <<>>

\* no discovery is under way
InitDiscoverer ==
    /\ d_pc = "idle"
    /\ d_run = 0
    /\ d_index = "none"
    /\ d_single = <<>>
    /\ d_count = -1
    /\ d_listing = <<>>

\* no function of utils.py is under test
InitUtils ==
    /\ u_url = NoUrl
    /\ u_domain = Domain
    /\ u_norm = <<>>
    /\ u_post = "none"
    /\ a_urls = <<>>
    /\ a_paths = <<>>

(***************************************************************************)
(* The project as discovery and a validation run (validate.py:729-760)     *)
(* over the one URL found leave it: the page is cached, accepted, and      *)
(* listed in valid_posts.tsv.                                              *)
(***************************************************************************)
InitValidated ==
    LET url  == CandidateOrder[3]
        page == [text |-> "T1", postid |-> FALSE]
        ex   == Extracted(page)
        rec  == apply_heuristics([NewRecord(url) EXCEPT
                                     !.content = ex.content,
                                     !.extraction_method = ex.extraction_method,
                                     !.local_path = LocalHtmlPath(url)], {})
    IN /\ urls_file_exists = TRUE
       /\ discovered = TRUE
       /\ InitDiscoverer
       /\ InitUtils
       /\ v_urls = <<url>>
       /\ v_run = 1
       /\ v_pc = "finished"
       /\ v_i = 2
       /\ v_results = <<rec>>
       /\ seen_hashes = SeenAfter(rec, {})
       /\ html = [g \in Slugs |-> IF g = LocalHtmlPath(url) THEN page ELSE NoPage]
       /\ v_report = ReportRows(<<rec>>)
       /\ v_valid_posts = ValidPostsFile(<<rec>>)
       /\ validated = TRUE
       /\ v_net = <<"request", "sleep", "request">>
       /\ v_index = <<>>

InitFetcher ==
    /\ concurrency \in 1..MaxConcurrency
    /\ media_fetched = FALSE
    /\ passNumber = 0
    /\ mainPc = "idle"
    /\ previous = [u \in AssetURLs |-> "none"]
    /\ to_fetch = {}
    /\ task = [u \in AssetURLs |-> NoTask]
    /\ doneQ = <<>>
    /\ results = <<>>
    /\ ledgerExists = FALSE
    /\ ledgerLines = <<>>
    /\ ledgerSaved = <<>>
    /\ saveFrom = "none"
    /\ files = [p \in LocalPaths |-> "absent"]
    /\ okBefore = {}

\* several passes over two assets, against an archive with few captures
InitLedger ==
    /\ media_urls = { u \in FlatURLs : u.query = "" }
    /\ archiveMax = MaxCaptures
    /\ passLimit = MaxPasses
    /\ indexFaults = FALSE
    /\ discoverLimit = 0
    /\ listed = {}
    /\ listingMax = 0
    /\ InitFetcher
    /\ InitValidated

\* one pass over all three assets, against an archive with few captures
InitPool ==
    /\ media_urls = FlatURLs
    /\ archiveMax = MaxCaptures
    /\ passLimit = 1
    /\ indexFaults = FALSE
    /\ discoverLimit = 0
    /\ listed = {}
    /\ listingMax = 0
    /\ InitFetcher
    /\ InitValidated

\* one pass over the two assets that share a local path, against an archive
\* that holds more captures of an asset than the query's limit
InitAttempts ==
    /\ media_urls = { u \in FlatURLs : u.path = <<"/", "a", ".png">> }
    /\ archiveMax = max_attempts + 1
    /\ passLimit = 1
    /\ indexFaults = FALSE
    /\ discoverLimit = 0
    /\ listed = {}
    /\ listingMax = 0
    /\ InitFetcher
    /\ InitValidated

\* passes over two assets of which one's local path is a directory of the
\* other's
InitNested ==
    /\ media_urls = NestedURLs
    /\ archiveMax = MaxCaptures
    /\ passLimit = MaxPasses - 1
    /\ indexFaults = FALSE
    /\ discoverLimit = 0
    /\ listed = {}
    /\ listingMax = 0
    /\ InitFetcher
    /\ InitValidated

NextFetch ==
    \/ StartPass
    \/ \E u \in AssetURLs : Acquire(u)
    \/ \E u \in AssetURLs : CdxResponse(u)
    \/ \E u \in AssetURLs : SleepDone(u)
    \/ \E u \in AssetURLs : GetResponse(u)
    \/ \E u \in AssetURLs : BodyRead(u)
    \/ \E u \in AssetURLs : WriteDone(u)
    \/ \E u \in AssetURLs : WriteFails(u)
    \/ Collect
    \/ SaveOpen
    \/ SaveWriteLine
    \/ SaveReturn
    \/ Kill

\* validation runs over a discovered list of at most MaxCandidates URLs
InitValidate ==
    /\ \/ urls_file_exists = TRUE /\ v_urls \in SortedLists(1, MaxCandidates)
       \/ urls_file_exists = FALSE /\ v_urls = <<>>
    /\ discovered = urls_file_exists
    /\ InitDiscoverer
    /\ InitUtils
    /\ indexFaults = FALSE
    /\ discoverLimit = 0
    /\ listed = {}
    /\ listingMax = 0
    /\ InitValidator
    /\ media_urls = {}
    /\ archiveMax = 0
    /\ passLimit = 0
    /\ InitFetcher

NextValidate ==
    \/ V_Start
    \/ V_BeginUrl
    \/ V_CdxResponse
    \/ V_DownloadSleepDone
    \/ V_DownloadResponse
    \/ V_JsonCdxResponse
    \/ V_JsonSleepDone
    \/ V_JsonResponse
    \/ V_FinalSave
    \/ V_Kill

SpecLedger == InitLedger /\ [][NextFetch]_vars

SpecPool == InitPool /\ [][NextFetch]_vars

SpecAttempts == InitAttempts /\ [][NextFetch]_vars

SpecNested == InitNested /\ [][NextFetch]_vars

(***************************************************************************)
(* A pass that nobody interrupts: fetch_all and its tasks, without Kill.   *)
(* The event loop of asyncio.run (cli.py:77) runs every coroutine that is  *)
(* ready; the index query and the download carry a total timeout           *)
(* (fetch.py:149, 218), so each await on the network ends; asyncio.sleep   *)
(* and the file operations return.  Hence weak fairness of every step of   *)
(* a task and of fetch_all; the command itself (StartPass) is the user's   *)
(* to give.                                                                *)
(***************************************************************************)
NextPass ==
    \/ StartPass
    \/ \E u \in AssetURLs : Acquire(u)
    \/ \E u \in AssetURLs : CdxResponse(u)
    \/ \E u \in AssetURLs : SleepDone(u)
    \/ \E u \in AssetURLs : GetResponse(u)
    \/ \E u \in AssetURLs : BodyRead(u)
    \/ \E u \in AssetURLs : WriteDone(u)
    \/ \E u \in AssetURLs : WriteFails(u)
    \/ Collect
    \/ SaveOpen
    \/ SaveWriteLine
    \/ SaveReturn

PassFairness ==
    /\ \A u \in AssetURLs :
          /\ WF_vars(Acquire(u))
          /\ WF_vars(CdxResponse(u))
          /\ WF_vars(SleepDone(u))
          /\ WF_vars(GetResponse(u))
          /\ WF_vars(BodyRead(u))
          /\ WF_vars(WriteDone(u) \/ WriteFails(u))
    /\ WF_vars(Collect)
    /\ WF_vars(SaveOpen)
    /\ WF_vars(SaveWriteLine)
    /\ WF_vars(SaveReturn)

SpecNestedFair == InitNested /\ [][NextPass]_vars /\ PassFairness

SpecValidate == InitValidate /\ [][NextValidate]_vars

(***************************************************************************)
(* Validation runs over a short list in a project whose HTML cache holds a *)
(* file left by an interrupted download.                                   *)
(***************************************************************************)
InitRecords ==
    /\ urls_file_exists = TRUE
    /\ v_urls \in { l \in SortedLists(1, MaxCandidates) : Len(l) \in 1..(MaxCandidates - 1) }
    /\ discovered = TRUE
    /\ InitDiscoverer
    /\ InitUtils
    /\ indexFaults = FALSE
    /\ discoverLimit = 0
    /\ listed = {}
    /\ listingMax = 0
    /\ v_run = 0
    /\ v_pc = "killed"
    /\ v_i = 1
    /\ v_results = <<>>
    /\ seen_hashes = {}
    /\ html = [g \in Slugs |-> IF g = LocalHtmlPath(CandidateOrder[3]) THEN Unreadable
                                ELSE NoPage]
    /\ v_report = <<>>
    /\ v_valid_posts = <<>>
    /\ validated = FALSE
    /\ v_net = <<>>
    /\ v_index = <<>>
    /\ media_urls = {}
    /\ archiveMax = 0
    /\ passLimit = 0
    /\ InitFetcher

SpecRecords == InitRecords /\ [][NextValidate]_vars

(***************************************************************************)
(* The three phases on a new project, run in any order and any number of   *)
(* times within the bounds, against an archive index that may fail.        *)
(***************************************************************************)
InitPipeline ==
    /\ urls_file_exists = FALSE
    /\ v_urls = <<>>
    /\ discovered = FALSE
    /\ InitDiscoverer
    /\ InitUtils
    /\ InitValidator
    /\ media_urls = { u \in FlatURLs : u.path = <<"/", "a", ".png">> /\ u.query = "" }
    /\ concurrency = 1
    /\ archiveMax = MaxCaptures
    /\ passLimit = MaxPasses - 1
    /\ indexFaults = TRUE
    /\ discoverLimit = MaxDiscoverRuns - 1
    /\ listed = { Candidate(<<"category", "news">>, TRUE),
                  Candidate(<<"hello">>, FALSE),
                  Candidate(<<"hello">>, TRUE) }
    /\ listingMax = 1
    /\ InitFetcher

NextPipeline ==
    \/ D_Start
    \/ D_CdxResponse
    \/ D_Kill
    \/ V_Start
    \/ V_BeginUrl
    \/ V_CdxResponse
    \/ V_DownloadSleepDone
    \/ V_DownloadResponse
    \/ V_JsonCdxResponse
    \/ V_JsonSleepDone
    \/ V_JsonResponse
    \/ V_FinalSave
    \/ V_Kill
    \/ StartPass
    \/ \E u \in AssetURLs : Acquire(u)
    \/ \E u \in AssetURLs : CdxResponse(u)
    \/ \E u \in AssetURLs : SleepDone(u)
    \/ \E u \in AssetURLs : GetResponse(u)
    \/ \E u \in AssetURLs : BodyRead(u)
    \/ \E u \in AssetURLs : WriteDone(u)
    \/ \E u \in AssetURLs : WriteFails(u)
    \/ Collect
    \/ SaveOpen
    \/ SaveWriteLine
    \/ SaveReturn
    \/ Kill

SpecPipeline == InitPipeline /\ [][NextPipeline]_vars

\* no validation and no fetch pass has run or will run
InitOtherPhasesIdle ==
    /\ InitValidator
    /\ media_urls = {}
    /\ archiveMax = 0
    /\ passLimit = 0
    /\ concurrency = 1
    /\ InitFetcher

\* the URLs discover_single is called with
SingleURLs ==
    { Candidate(<<"feed">>, TRUE),
      Candidate(<<"hello">>, FALSE),
      Candidate(<<"hello">>, TRUE) }

(***************************************************************************)
(* Discovery commands on a new project, discover and discover_single in    *)
(* any order, against an index that may fail.                              *)
(***************************************************************************)
InitDiscover ==
    /\ urls_file_exists = FALSE
    /\ v_urls = <<>>
    /\ discovered = FALSE
    /\ InitDiscoverer
    /\ InitUtils
    /\ indexFaults = TRUE
    /\ discoverLimit = MaxDiscoverRuns
    /\ listed = { Candidate(<<"2020", "01", "15", "a">>, TRUE),
                  Candidate(<<"2020", "01", "16", "b">>, TRUE),
                  Candidate(<<"feed">>, TRUE),
                  Candidate(<<"hello">>, FALSE),
                  Candidate(<<"hello">>, TRUE) }
    /\ listingMax = MaxListing
    /\ InitOtherPhasesIdle

NextDiscover ==
    \/ D_Start
    \/ D_CdxResponse
    \/ \E url \in SingleURLs : DS_Start(url)
    \/ DS_CdxResponse
    \/ D_Kill

SpecDiscover == InitDiscover /\ [][NextDiscover]_vars

\* the paths of the URLs the functions of utils.py are applied to
UrlPaths ==
    { <<>>, <<"my-post">>, <<"2020", "01", "15", "my-post">>, <<"2020", "01", "my-post">>,
      <<"a", "b">>, <<"feed">>, <<"feed", "atom">>, <<"my-post", "feed">>,
      <<"my-post", "amp">>, <<"page", "2">>, <<"category", "news">>, <<"category">>,
      <<"tag", "news">>, <<"author", "news">>, <<"search", "news">>, <<"2020">>,
      <<"2020", "01">>, <<"2020", "01", "15">>, <<"pic.jpg">>, <<"style.css">> }

\* what comes before the host: nothing, a scheme, "www.", and repetitions
UrlPrefixes ==
    { <<>>, <<"http://">>, <<"https://">>, <<"www.">>, <<"https://", "www.">>,
      <<"http://", "http://">>, <<"www.", "www.">> }

\* the URLs the functions are applied to
UrlInputs ==
    [prefix : UrlPrefixes, host : Hosts, segs : UrlPaths,
     trail : {<<>>, <<"/">>, <<"/", "/">>},
     tail : {<<>>, <<"?x=1">>, <<"#top">>, <<"?x=1", "/">>}]

(***************************************************************************)
(* The URL functions of utils.py applied to one URL.                       *)
(***************************************************************************)
InitUrls ==
    /\ u_url \in UrlInputs
    /\ u_domain \in {<<"example.com">>, <<"www.", "example.com">>}
    /\ u_norm = <<>>
    /\ u_post = "none"
    /\ a_urls = <<>>
    /\ a_paths = <<>>
    /\ urls_file_exists = FALSE
    /\ v_urls = <<>>
    /\ discovered = FALSE
    /\ InitDiscoverer
    /\ indexFaults = FALSE
    /\ discoverLimit = 0
    /\ listed = {}
    /\ listingMax = 0
    /\ InitOtherPhasesIdle

NextUrls ==
    \/ U_Normalize
    \/ U_Classify

SpecUrls == InitUrls /\ [][NextUrls]_vars

\* the path texts of the asset URLs a local path is asked for
AssetPathTexts ==
    { <<>>, <<"/">>, <<"/", "a", ".png">>, <<"/", "%61", ".png">>, <<"/", "/", "a", ".png">>,
      <<"/", "img">>, <<"/", "img", "/">>, <<"/", "img", "/", "a", ".png">>,
      <<"/", "img", "%2F", "a", ".png">>, <<"/", "%2F", "a", ".png">> }

AssetInputs == [netloc : {"cdn", "img.cdn"}, path : AssetPathTexts, query : {"", "v=2"}]

(***************************************************************************)
(* get_local_path_for_url applied to two asset URLs of one pass.           *)
(***************************************************************************)
InitAssetPaths ==
    /\ a_urls \in AssetInputs \X AssetInputs
    /\ a_paths = <<>>
    /\ u_url = NoUrl
    /\ u_domain = Domain
    /\ u_norm = <<>>
    /\ u_post = "none"
    /\ urls_file_exists = FALSE
    /\ v_urls = <<>>
    /\ discovered = FALSE
    /\ InitDiscoverer
    /\ indexFaults = FALSE
    /\ discoverLimit = 0
    /\ listed = {}
    /\ listingMax = 0
    /\ InitOtherPhasesIdle

\* fetch.py:183  download_asset asks for the local path of its asset
A_LocalPaths ==
    /\ a_urls # <<>>
    /\ a_paths = <<>>
    /\ a_paths' = <<get_local_path_for_url(a_urls[1]), get_local_path_for_url(a_urls[2])>>
    /\ UNCHANGED <<fetchVars, valVars, discVars, u_url, u_domain, u_norm, u_post, a_urls>>

NextAssetPaths == A_LocalPaths

SpecAssetPaths == InitAssetPaths /\ [][NextAssetPaths]_vars


(***************************************************************************)
(*                     Properties of the media fetcher                     *)
(***************************************************************************)
IsGet(e) == e[1] = "get"

IsRequest(e) == e[1] \in {"cdx", "get"}

\* the timestamps of the captures a task has requested, in the order of the requests
Gets(log) == [k \in 1..Len(SelectSeq(log, IsGet)) |-> SelectSeq(log, IsGet)[k][2]]

\* the ledger on disk holds a row for u with status OK
LedgerShowsOK(u) ==
    /\ ledgerExists
    /\ \E k \in 2..Len(ledgerLines) :
          ledgerLines[k].asset_url = u /\ ledgerLines[k].status = "OK"

\* C1: an asset that the ledger loaded by a pass showed as OK is still OK in
\* the ledger when that pass has run to its end: a success is never dropped
\* or downgraded by a later pass.
C1_SuccessKeptByLaterPass ==
    mainPc \in {"finished", "raised"} =>
        \A u \in AssetURLs : previous[u] = "OK" => LedgerShowsOK(u)

\* C2: once a ledger loaded at the start of a pass has shown asset u as OK,
\* no task of that pass or of a later pass sends an index query or a
\* download request for u.
C2_NoRequestForSucceededAsset ==
    \A u \in okBefore : SelectSeq(task[u].log, IsRequest) = <<>>

\* C2 witness: a later pass whose ledger no longer lists the succeeded asset
\* has run the asset's task to its end.
C2_Witness ==
    \E u \in okBefore :
        /\ previous[u] # "OK"
        /\ task[u].pc = "done"
        /\ passNumber = 3

\* C3: a task never takes an asset for done because of a local file that an
\* interrupted or failed write left incomplete: such an asset is retrieved
\* again, not skipped.
C3_PartialFileIsRetried ==
    \A u \in AssetURLs :
        (task[u].pc = "done" /\ task[u].status = "SKIP")
            => files[get_local_path_for_url(u)] # "partial"

\* C4: at every instant the ledger on disk is a complete version: the one the
\* last completed save left (or the pass found), or the complete new one.
C4_LedgerReplacedAtomically ==
    ledgerExists =>
        \/ ledgerLines = LedgerContent(results)
        \/ ledgerLines = ledgerSaved /\ ledgerSaved # <<>>

\* C6: the tasks holding an admission slot never outnumber config.concurrency.
C6_InFlightWithinConcurrency == Cardinality(InFlight) <= concurrency

\* C6 witness: every slot is taken while another task waits for one.
C6_Witness ==
    /\ concurrency = 2
    /\ Cardinality(InFlight) = 2
    /\ \E u \in AssetURLs : task[u].pc = "pending"

\* C8: in every task each download request comes directly after a completed
\* wait of the configured delay, so no two requests of a task follow one
\* another without the delay between them.
C8_DelayBeforeEachDownload ==
    \A u \in AssetURLs :
        \A k \in 1..Len(task[u].log) :
            /\ IsGet(task[u].log[k]) => (k > 1 /\ task[u].log[k - 1] = <<"sleep">>)
            /\ (k > 1 /\ IsRequest(task[u].log[k])) => ~IsRequest(task[u].log[k - 1])

\* C8 witness: a task has sent three download requests.
C8_Witness == \E u \in AssetURLs : Len(Gets(task[u].log)) = 3

\* C9 as stated: a task that has received a response with status 200 sends no
\* further request in this pass and returns OK for that capture.
C9_FirstSuccessStatusIsSaved ==
    [][\A u \in AssetURLs :
          (task[u].pc \in {"reading", "writing"} /\ mainPc' = "running")
              => \/ task'[u].pc \in {"reading", "writing"}
                 \/ /\ task'[u].pc = "done"
                    /\ task'[u].status = "OK"
                    /\ task'[u].snapshots_tried = task[u].snapshots_tried]_vars

\* C9 amended: a task asks for at most max_attempts captures and requests them
\* in the index's order, each once; a result is OK only when the task has
\* returned, it then names the capture requested last, at position
\* snapshots_tried of the index's list, the local file exists, and nothing
\* was requested after it.
C9_AttemptsInOrderUntilSaved ==
    \A u \in AssetURLs :
        LET t == task[u]
            g == Gets(t.log)
        IN /\ Len(t.timestamps) <= max_attempts
           /\ t.snapshots_available = Len(t.timestamps)
           /\ Len(g) <= Len(t.timestamps)
           /\ g = SubSeq(t.timestamps, 1, Len(g))
           /\ Len(g) = IF t.pc = "sleep" THEN t.snapshots_tried - 1 ELSE t.snapshots_tried
           /\ t.status = "OK" =>
                 /\ t.pc = "done"
                 /\ t.snapshots_tried >= 1
                 /\ t.success_timestamp = g[Len(g)]
                 /\ t.success_timestamp = t.timestamps[t.snapshots_tried]
                 /\ files[get_local_path_for_url(u)] # "absent"

\* C9 witness: the third of five listed captures was saved.
C9_Witness ==
    \E u \in AssetURLs :
        /\ task[u].status = "OK"
        /\ task[u].snapshots_tried = 3
        /\ task[u].snapshots_available = max_attempts

\* C10: a task that queried the index and saved nothing returns FAIL; a FAIL
\* result has snapshots_tried = snapshots_available = the number of
\* captures listed, each of them requested (0 = 0 when none is listed).
C10_ExhaustionAccounting ==
    \A u \in AssetURLs :
        LET t == task[u]
        IN (t.pc = "done" /\ t.log # <<>>) =>
              /\ t.status \in {"OK", "FAIL"}
              /\ t.status = "FAIL" =>
                    /\ t.snapshots_tried = t.snapshots_available
                    /\ t.snapshots_available = Len(t.timestamps)
                    /\ Len(Gets(t.log)) = t.snapshots_available
                    /\ t.success_timestamp = 0

\* C10 witness: three captures were listed and all three failed.
C10_Witness ==
    \E u \in AssetURLs :
        /\ task[u].pc = "done"
        /\ task[u].status = "FAIL"
        /\ task[u].snapshots_available = 3
        /\ task[u].snapshots_tried = 3


(***************************************************************************)
(*                    Properties of the post validator                     *)
(***************************************************************************)
Positions == 1..Len(v_results)

SameText(i, j) == v_results[i].content = v_results[j].content

\* C5, as stated: of the records of one run that carry the same non-empty
\* extracted text, the first one processed is accepted and every later one
\* is rejected with reason duplicate_content.
C5_FirstProcessedIsAccepted ==
    \A i, j \in Positions :
        (/\ i < j
         /\ v_results[i].content # ""
         /\ SameText(i, j)
         /\ \A k \in 1..(i - 1) : ~SameText(k, i))
        => /\ v_results[i].valid
           /\ ~v_results[j].valid
           /\ v_results[j].reason = "duplicate_content"

\* an earlier record with the same text whose URL is not archive-page-shaped
EarlierSameText(j) ==
    \E i \in 1..(j - 1) : ~IsArchivePageURL(v_results[i].url) /\ SameText(i, j)

\* C5, amended: within one run no two accepted records share a content
\* fingerprint; among the records whose URL is not archive-page-shaped and
\* whose extracted text is non-empty, a record is accepted exactly when no
\* earlier such record carries the same text and is rejected with reason
\* duplicate_content otherwise; and seen_hashes holds exactly the
\* fingerprints of the accepted records.
C5_FirstPostWithTextIsAccepted ==
    /\ \A i, j \in Positions :
          (i < j /\ v_results[i].valid /\ v_results[j].valid)
          => compute_content_hash(v_results[i].content)
                 # compute_content_hash(v_results[j].content)
    /\ \A j \in Positions :
          (~IsArchivePageURL(v_results[j].url) /\ v_results[j].content # "")
          => IF EarlierSameText(j)
             THEN ~v_results[j].valid /\ v_results[j].reason = "duplicate_content"
             ELSE v_results[j].valid /\ v_results[j].reason = "ok"
    /\ seen_hashes = { compute_content_hash(v_results[j].content) :
                           j \in { k \in Positions : v_results[k].valid } }

\* C5 witness: two records with the same text, the first accepted and the
\* second rejected as a duplicate
C5_Witness ==
    \E i, j \in Positions :
        /\ i < j
        /\ SameText(i, j)
        /\ v_results[i].valid
        /\ v_results[j].reason = "duplicate_content"
        /\ Cardinality(seen_hashes) = 1

\* C7, as stated: any two consecutive requests of a validation run have the
\* politeness delay between them.
C7_DelayBetweenRequests ==
    \A k \in 1..(Len(v_net) - 1) : ~(v_net[k] = "request" /\ v_net[k + 1] = "request")

(***************************************************************************)
(*              Further properties of the media fetcher                    *)
(***************************************************************************)
\* C11: a download task that takes its admission slot while the asset's
\* local file exists returns at once with status SKIP, snapshots_tried = 0
\* and snapshots_available = 0, having sent no index query and no download
\* request.
C11_PresentFileIsSkipped ==
    [][\A u \in AssetURLs :
          (/\ task[u].pc = "pending"
           /\ task'[u].pc \notin {"pending", "none"}
           /\ files[get_local_path_for_url(u)] # "absent")
          => /\ task'[u].pc = "done"
             /\ task'[u].status = "SKIP"
             /\ task'[u].snapshots_tried = 0
             /\ task'[u].snapshots_available = 0
             /\ task'[u].log = <<>>
             /\ files' = files]_vars

\* C11 witness: a task has returned SKIP for an asset whose complete file is
\* on disk, and its row is in the results
C11_Witness ==
    \E u \in AssetURLs :
        /\ task[u].pc = "done"
        /\ task[u].status = "SKIP"
        /\ files[get_local_path_for_url(u)] = "complete"
        /\ \E k \in 1..Len(results) :
              /\ results[k].asset_url = u
              /\ results[k].status = "SKIP"
              /\ results[k].snapshots_tried = 0
              /\ results[k].snapshots_available = 0

(***************************************************************************)
(*              Further properties of the post validator                   *)
(***************************************************************************)
\* C12, as stated for validation: a run that has ended other than by a kill
\* has processed every URL of its list, made the final save and set the
\* validated flag.
C12_RunEndsWithEveryUrlProcessed ==
    v_pc \in {"finished", "raised"}
    => /\ Len(v_results) = Len(v_urls)
       /\ v_report = ReportRows(v_results)
       /\ validated

\* C15, as stated: beginning the validation of a URL whose HTML is cached
\* sends no request, whatever the page holds.
C15_CachedHtmlNeedsNoRequest ==
    [][(v_pc = "next" /\ v_pc' # "killed" /\ html[LocalHtmlPath(CurrentURL)] # NoPage)
       => v_net' = v_net]_vars

\* C15, amended: a URL whose HTML is cached is validated without an index
\* lookup or a download of the page; if the cached page carries no post id
\* the URL is finished without any request, and if it carries one the only
\* request that follows is the index lookup for the REST API document.
C15_CachedHtmlIsNotRequestedAgain ==
    [][(v_pc = "next" /\ v_pc' # "killed" /\ html[LocalHtmlPath(CurrentURL)] # NoPage)
       => /\ html' = html
          /\ IF html[LocalHtmlPath(CurrentURL)].postid
             THEN v_pc' = "json_cdx" /\ v_net' = Append(v_net, "request")
             ELSE /\ v_net' = v_net
                  /\ v_pc' \in {"next", "final"}
                  /\ Len(v_results') = Len(v_results) + 1]_vars

\* C15 witness: a second run has finished over cached pages without a request
C15_Witness ==
    /\ v_run = 2
    /\ v_pc = "finished"
    /\ Len(v_results) = 2
    /\ v_net = <<>>

\* the URLs this run has processed
Processed == Len(v_results)

\* C16, as stated: at every point of a run the report and the accepted
\* subset on disk hold the record of every URL processed so far.
C16_NoCompletedWorkLost ==
    ValidatorRunning
    => \A j \in 1..Processed :
          /\ \E k \in 1..Len(v_report) : v_report[k] = ReportRow(v_results[j])
          /\ v_results[j].valid
             => \E k \in 2..Len(v_valid_posts) :
                   v_valid_posts[k] = ValidPostRow(v_results[j])

\* the URLs processed up to the last checkpoint of this run
Checkpointed ==
    ValidateCheckpointEvery * (Processed \div ValidateCheckpointEvery)

\* C16, amended: once a run has processed ValidateCheckpointEvery URLs, the
\* report and the accepted subset on disk hold the records of the URLs
\* processed up to the last multiple of ValidateCheckpointEvery, and after
\* the final save those of all URLs; the records processed since the last
\* checkpoint are in memory only.
C16_SavedUpToLastCheckpoint ==
    /\ (ValidatorRunning /\ Checkpointed > 0)
       => /\ v_report = ReportRows(SubSeq(v_results, 1, Checkpointed))
          /\ v_valid_posts = ValidPostsFile(SubSeq(v_results, 1, Checkpointed))
    /\ (v_pc = "finished")
       => /\ v_report = ReportRows(v_results)
          /\ v_valid_posts = ValidPostsFile(v_results)

\* C16 witness: three URLs are processed, the report holds the first two
C16_Witness ==
    /\ ValidatorRunning
    /\ Processed = 3
    /\ Len(v_report) = 2
    /\ Len(v_valid_posts) >= 2

\* the record went through apply_heuristics (validate.py:654): the HTML was
\* there and extraction ran
Heuristic(r) == r.reason \in {"archive_page", "no_content", "duplicate_content", "ok"}

\* the fingerprints accepted before position j of this run
AcceptedBefore(j) ==
    { compute_content_hash(v_results[k].content) :
          k \in { m \in 1..(j - 1) : v_results[m].valid } }

\* C17: every record that reached the acceptance rules carries the verdict
\* of the first rule that applies, in the order archive_page, no_content,
\* duplicate_content, accepted; and the fingerprints seen are exactly those
\* of the accepted records, so a rejected record adds none.
C17_RulesAppliedInOrder ==
    /\ \A j \in Positions :
          LET r == v_results[j]
          IN Heuristic(r) =>
                /\ r.reason = (IF IsArchivePageURL(r.url) THEN "archive_page"
                               ELSE IF r.content = "" THEN "no_content"
                               ELSE IF compute_content_hash(r.content) \in AcceptedBefore(j)
                                    THEN "duplicate_content"
                               ELSE "ok")
                /\ r.valid <=> r.reason = "ok"
    /\ seen_hashes = AcceptedBefore(Len(v_results) + 1)

\* C17 witness: an archive-page URL with the text of an accepted record is
\* rejected as archive_page, and another with no text likewise
C17_Witness ==
    \E i, j \in Positions :
        /\ i < j
        /\ v_results[i].valid
        /\ v_results[j].reason = "archive_page"
        /\ v_results[j].content = v_results[i].content
        /\ seen_hashes = {compute_content_hash(v_results[i].content)}

\* a row of the accepted-subset list
SubsetRows == IF v_valid_posts = <<>> THEN <<>> ELSE Tail(v_valid_posts)

\* C18: when the index lookup for a URL without cached HTML ends without a
\* snapshot, the URL's record is appended with valid = FALSE and reason
\* no_snapshot, no request is sent, no HTML file is created and the seen
\* fingerprints stay as they were.
C18_NoSnapshotRecord ==
    [][(v_pc = "cdx" /\ v_pc' \notin {"cdx", "dl_sleep", "killed"})
       => /\ html[LocalHtmlPath(CurrentURL)] = NoPage
          /\ v_results' = Append(v_results, [NewRecord(CurrentURL) EXCEPT !.reason = "no_snapshot"])
          /\ ~v_results'[Len(v_results')].valid
          /\ v_net' = v_net
          /\ html' = html
          /\ seen_hashes' = seen_hashes]_vars

\* C18 witness: a run has finished with a no_snapshot record after an
\* accepted one, with the one index query for it as its last request
C18_Witness ==
    /\ v_pc = "finished"
    /\ Len(v_results) = 2
    /\ v_results[1].valid
    /\ v_results[2].reason = "no_snapshot"
    /\ html[LocalHtmlPath(v_urls[2])] = NoPage
    /\ Cardinality(seen_hashes) = 1

\* C19, as stated: when a run completes, the report holds one record per
\* URL of the list in the list's order, and the accepted-subset list holds
\* the accepted records, each with url, local path and post type.
C19_ReportAndSubsetComplete ==
    v_pc = "finished"
    => /\ Len(v_report) = Len(v_urls)
       /\ \A k \in 1..Len(v_urls) : v_report[k].url = v_urls[k]
       /\ Len(SubsetRows) = Len(ValidPosts(v_results))
       /\ \A k \in 1..Len(SubsetRows) :
             /\ DOMAIN SubsetRows[k] = {"url", "local_path", "post_type"}
             /\ SubsetRows[k].url = ValidPosts(v_results)[k].url
             /\ SubsetRows[k].local_path = ValidPosts(v_results)[k].local_path

\* C20: every accepted record, in memory and in the accepted-subset list on
\* disk, has a non-empty local path, and the HTML file at that path exists.
C20_AcceptedRecordHasHtml ==
    /\ \A j \in Positions :
          v_results[j].valid
          => /\ v_results[j].local_path # ""
             /\ v_results[j].local_path \in Slugs
             /\ html[v_results[j].local_path] # NoPage
    /\ \A k \in 1..Len(SubsetRows) :
          /\ SubsetRows[k].local_path \in Slugs
          /\ html[SubsetRows[k].local_path] # NoPage

\* C20 witness: the accepted-subset list on disk names two records
C20_Witness ==
    /\ Len(SubsetRows) = 2
    /\ v_pc = "finished"
    /\ SubsetRows[1].local_path # SubsetRows[2].local_path

(***************************************************************************)
(* C13.  A phase started without its input file stops at once with its     *)
(* FileNotFoundError: a validation run without discovered_urls.tsv, a      *)
(* fetch pass without valid_posts.tsv.  The phase has sent no request, and *)
(* the start has changed no file of the project and no completion flag.    *)
(***************************************************************************)
Persisted ==
    <<urls_file_exists, v_urls, discovered, html, v_report, v_valid_posts, validated,
      ledgerExists, ledgerLines, files, media_fetched>>

C13_MissingInputAborts ==
    [][ /\ (v_run' # v_run /\ ~urls_file_exists)
           => /\ v_pc' = "aborted"
              /\ v_net' = <<>>
              /\ UNCHANGED Persisted
        /\ (passNumber' # passNumber /\ v_valid_posts = <<>>)
           => /\ mainPc' = "aborted"
              /\ \A u \in AssetURLs : task'[u].log = <<>>
              /\ UNCHANGED Persisted
        /\ (v_pc = "aborted" /\ v_run' = v_run) => v_net' = <<>>
        /\ (mainPc = "aborted" /\ passNumber' = passNumber)
           => \A u \in AssetURLs : task'[u].log = <<>> ]_vars

\* both phases have been started without their input and have aborted, and
\* nothing has been written
C13_Witness ==
    /\ v_pc = "aborted"
    /\ mainPc = "aborted"
    /\ ~urls_file_exists
    /\ v_valid_posts = <<>>
    /\ v_report = <<>>
    /\ ~validated
    /\ ~media_fetched

(***************************************************************************)
(* C14.  An index query that is answered with a non-200 status or fails    *)
(* in transport ends as one that finds nothing, and no exception leaves    *)
(* it: the domain listing is empty and discovery returns without writing;  *)
(* the point lookup finds no snapshot, so the page is recorded as          *)
(* no_snapshot and the REST API lookup falls back to the page's own text;  *)
(* the snapshot listing is empty and the asset's task returns its FAIL     *)
(* result with no capture tried.                                           *)
(***************************************************************************)
Faulty == {"non200", "error"}

C14_IndexFaultIsAbsence ==
    [][ /\ (d_pc = "cdx" /\ d_index' \in Faulty)
           => /\ d_pc' = "nothing"
              /\ UNCHANGED <<v_urls, urls_file_exists, discovered>>
        /\ (v_pc = "cdx" /\ v_index' # <<>> /\ v_index'[2] \in Faulty)
           => /\ v_results' = Append(v_results, NoSnapshotRecord(CurrentURL))
              /\ v_pc' \in {"next", "final"}
        /\ (v_pc = "json_cdx" /\ v_index' # <<>> /\ v_index'[2] \in Faulty)
           => /\ v_results' =
                    Append(v_results,
                           Judged(CurrentURL, Extracted(html[LocalHtmlPath(CurrentURL)])))
              /\ v_pc' \in {"next", "final"}
        /\ \A u \in AssetURLs :
              (task[u].pc = "cdx" /\ task'[u].index \in Faulty)
              => /\ task'[u] = [task[u] EXCEPT !.pc = "done", !.index = task'[u].index]
                 /\ task'[u].status = "FAIL"
                 /\ task'[u].snapshots_available = 0
                 /\ task'[u].snapshots_tried = 0
                 /\ doneQ' = Append(doneQ, u)
                 /\ mainPc' = mainPc ]_vars

\* each of the three operations has met a faulty index: the last discovery,
\* an asset's task of the last pass, and the lookup that has just returned
C14_Witness ==
    /\ d_index \in Faulty
    /\ d_pc = "nothing"
    /\ \E u \in AssetURLs : task[u].index \in Faulty /\ task[u].pc = "done"
    /\ v_index # <<>>
    /\ v_index[2] \in Faulty
    /\ v_results # <<>>

(***************************************************************************)
(* C21.  A record is rejected as no_content only when no strategy of the   *)
(* cascade has content for the page: the page whose record says no_content *)
(* has no text for the generic extraction either.                          *)
(***************************************************************************)
C21_NoContentOnlyWhenNothingExtractable ==
    \A k \in 1..Len(v_results) :
        v_results[k].reason = "no_content"
        => html[v_results[k].local_path].text = ""

(***************************************************************************)
(* C22.  Every record's reason is one of the listed values (the code       *)
(* writes the accepted value as "ok"): ok, archive_page, no_snapshot,      *)
(* download_failed, no_content, duplicate_content; and a record is valid   *)
(* exactly when its reason is the accepted value.                          *)
(***************************************************************************)
ListedReasons ==
    {"ok", "archive_page", "no_snapshot", "download_failed", "no_content",
     "duplicate_content"}

C22_ReasonIsListedAndVerdictMatches ==
    \A k \in 1..Len(v_results) :
        /\ v_results[k].reason \in ListedReasons
        /\ v_results[k].valid <=> v_results[k].reason = "ok"

(***************************************************************************)
(* C23.  After any sequence of discover and discover_single the persisted  *)
(* list has no two entries with the same normalized form.                  *)
(***************************************************************************)
NormalForm(c) == normalize_url(UrlString(c))

C23_NoDuplicateNormalizedForms ==
    \A i, j \in 1..Len(v_urls) :
        i # j => NormalForm(v_urls[i]) # NormalForm(v_urls[j])

(***************************************************************************)
(* C24.  What a discover run leaves on disk is a function of the index's   *)
(* answer alone: discovered_urls.tsv exists and holds the filtered,        *)
(* deduplicated URLs of the listing in ascending order, whatever the file  *)
(* held before; two runs with the same answer leave the same file.         *)
(***************************************************************************)
DiscoverReturns == d_pc = "cdx" /\ d_pc' \in {"finished", "nothing"}

\* the place of a URL in the ascending order
Pos(u) == CHOOSE k \in 1..Len(SortedURLs) : SortedURLs[k] = u

Ascending(urls) == \A i, j \in 1..Len(urls) : i < j => Pos(urls[i]) < Pos(urls[j])

C24_ListIsFunctionOfAnswer ==
    [][ DiscoverReturns
        => /\ urls_file_exists'
           /\ v_urls' = save_urls(deduplicate_urls(filter_post_urls(d_listing')))
           /\ Ascending(v_urls') ]_vars

(***************************************************************************)
(* C24, amended.  The same, for an answer that lists at least one URL.     *)
(* With an empty enumeration (no capture, a non-200 status, a failed       *)
(* request) discover writes nothing: the file stays as it was, or absent.  *)
(***************************************************************************)
C24_ListIsFunctionOfNonEmptyListing ==
    [][ DiscoverReturns
        => IF d_listing' # <<>>
           THEN /\ urls_file_exists'
                /\ v_urls' = save_urls(deduplicate_urls(filter_post_urls(d_listing')))
                /\ Ascending(v_urls')
           ELSE UNCHANGED <<v_urls, urls_file_exists>> ]_vars

\* a later discover run has replaced a list with the URLs of its own listing
C24_Witness ==
    /\ d_run >= 2
    /\ d_pc = "finished"
    /\ d_single = <<>>
    /\ Len(d_listing) >= 2
    /\ Len(v_urls) >= 2

(***************************************************************************)
(* C25.  What discover writes is exactly the listed URLs that pass the     *)
(* post predicate, one per normalized form: every URL written is a listed  *)
(* URL that passes; every listed URL that passes has its normalized form   *)
(* in the file; no normalized form is there twice; the count returned is   *)
(* the number of URLs written.  The listing /2020/01/15/a/, /feed/,        *)
(* /2020/01/16/b/ gives the two posts and the count 2.  A run without      *)
(* listed URLs writes nothing and returns 0.                               *)
(***************************************************************************)
IsPost(c) == is_post_url(UrlString(c), Domain)

ExampleListing ==
    << Candidate(<<"2020", "01", "15", "a">>, TRUE),
       Candidate(<<"feed">>, TRUE),
       Candidate(<<"2020", "01", "16", "b">>, TRUE) >>

ExampleResult ==
    << Candidate(<<"2020", "01", "15", "a">>, TRUE),
       Candidate(<<"2020", "01", "16", "b">>, TRUE) >>

C25_PersistsExactlyThePosts ==
    [][ DiscoverReturns
        => IF d_listing' # <<>>
           THEN /\ \A u \in Elements(v_urls') : u \in Elements(d_listing') /\ IsPost(u)
                /\ \A u \in Elements(d_listing') :
                      IsPost(u) => \E w \in Elements(v_urls') : NormalForm(w) = NormalForm(u)
                /\ \A i, j \in 1..Len(v_urls') :
                      i # j => NormalForm(v_urls'[i]) # NormalForm(v_urls'[j])
                /\ d_count' = Len(v_urls')
                /\ d_listing' = ExampleListing => v_urls' = ExampleResult /\ d_count' = 2
           ELSE /\ d_count' = 0
                /\ UNCHANGED <<v_urls, urls_file_exists>> ]_vars

\* discover has returned from the example listing
C25_Witness ==
    /\ d_pc = "finished"
    /\ d_listing = ExampleListing
    /\ v_urls = ExampleResult
    /\ d_count = 2

(***************************************************************************)
(* C26.  The post predicate accepts a URL only if it is of the configured  *)
(* domain and its path is a date permalink /YYYY/MM/DD/slug or one bare    *)
(* segment.                                                                *)
(***************************************************************************)
IsDatePermalink(segs) ==
    /\ Len(segs) = 4
    /\ segs[1] \in FourDigits
    /\ segs[2] \in TwoDigits
    /\ segs[3] \in TwoDigits

C26_AcceptsOnlyPermalinkOrBareSlug ==
    u_post = "yes"
    => /\ u_url.host = "example.com"
       /\ IsDatePermalink(u_url.segs) \/ Len(u_url.segs) = 1

(***************************************************************************)
(* C27.  For example.com the predicate is false for the feed, AMP,         *)
(* pagination, category, tag, author and search endpoints, for year,       *)
(* year-month and date paths and for files of a non-HTML type; and true    *)
(* for /2020/01/15/my-post/ and /my-post/; in each case with or without    *)
(* scheme, "www.", trailing slash or query string.                         *)
(***************************************************************************)
RejectedPaths ==
    { <<"feed">>, <<"feed", "atom">>, <<"my-post", "feed">>, <<"my-post", "amp">>,
      <<"page", "2">>, <<"category", "news">>, <<"tag", "news">>, <<"author", "news">>,
      <<"search", "news">>, <<"2020">>, <<"2020", "01">>, <<"2020", "01", "15">>,
      <<"pic.jpg">>, <<"style.css">> }

AcceptedPaths == { <<"2020", "01", "15", "my-post">>, <<"my-post">> }

\* a URL of example.com written with or without scheme, "www.", one trailing
\* slash and a query string
PlainVariant(u) ==
    /\ u.host = "example.com"
    /\ u.prefix \in {<<>>, <<"http://">>, <<"https://">>, <<"www.">>, <<"https://", "www.">>}
    /\ u.trail \in {<<>>, <<"/">>}
    /\ u.tail \in {<<>>, <<"?x=1">>}

C27_ClassifierTable ==
    (PlainVariant(u_url) /\ u_post # "none")
    => /\ u_url.segs \in RejectedPaths => u_post = "no"
       /\ u_url.segs \in AcceptedPaths => u_post = "yes"

(***************************************************************************)
(* C28.  normalize_url applied to its own result changes nothing.          *)
(***************************************************************************)
C28_NormalizeIsIdempotent == Len(u_norm) = 2 => u_norm[2] = u_norm[1]

(***************************************************************************)
(* C29.  discover_single on a URL found in the index leaves the persisted  *)
(* list equal to the union of the previous list and the URL: every URL     *)
(* that was persisted is kept, the URL appears exactly once, and a call    *)
(* for a URL that is already in the list leaves the list as it was.        *)
(***************************************************************************)
SingleReturns == d_pc = "single_cdx" /\ d_pc' \in {"finished", "nothing"}

PreviousList == IF urls_file_exists THEN v_urls ELSE <<>>

Occurrences(urls, u) == Cardinality({i \in 1..Len(urls) : urls[i] = u})

C30_SingleNeedsACapture ==
    [][(SingleReturns /\ d_index' # "rows")
       => /\ d_count' = 0
          /\ UNCHANGED <<v_urls, urls_file_exists, discovered>>]_vars

(***************************************************************************)
(* C31.  When the enumeration of the domain comes back empty, because the  *)
(* archive holds nothing or because the index query failed, discover       *)
(* returns 0 and leaves the persisted candidate list and the discovered    *)
(* flag as they were.                                                      *)
(***************************************************************************)
EmptyEnumeration == d_index' \in {"empty", "non200", "error"}

C31_EmptyEnumerationChangesNothing ==
    [][(DiscoverReturns /\ EmptyEnumeration)
       => /\ d_pc' = "nothing"
          /\ d_count' = 0
          /\ UNCHANGED <<v_urls, urls_file_exists, discovered>>]_vars

\* a failed enumeration left an earlier candidate list in place
C31_Witness ==
    /\ d_pc = "nothing"
    /\ d_single = <<>>
    /\ d_index = "non200"
    /\ d_count = 0
    /\ urls_file_exists
    /\ Len(v_urls) >= 1

(***************************************************************************)
(* C32.  The local path of an asset is a function of the host and path of  *)
(* its URL without collisions: one URL always gets the same path, two      *)
(* URLs that differ in host or path get different paths, and no asset's    *)
(* local path is a directory on the way to another asset's local path.     *)
(***************************************************************************)
IsDirectoryOf(p, q) == Len(p) < Len(q) /\ SubSeq(q, 1, Len(p)) = p

C32_LocalPathsCollisionFree ==
    a_paths # <<>>
    => /\ a_urls[1] = a_urls[2] => a_paths[1] = a_paths[2]
       /\ <<a_urls[1].netloc, a_urls[1].path>> # <<a_urls[2].netloc, a_urls[2].path>>
          => a_paths[1] # a_paths[2]
       /\ ~IsDirectoryOf(a_paths[1], a_paths[2])

(***************************************************************************)
(* C33.  In a fetch pass the ledger is rewritten in full after every       *)
(* CheckpointEvery processed completions and once more after the last      *)
(* one; every rewrite holds all results recorded so far in the pass; and   *)
(* the results are recorded in the order in which the tasks finish.        *)
(***************************************************************************)
CompletionProcessed == mainPc = "running" /\ Len(results') = Len(results) + 1

SaveReturns == mainPc = "saving_rows" /\ mainPc' \notin {"saving_rows", "killed"}

C33_LedgerCheckpoints ==
    [][/\ CompletionProcessed
          => /\ SubSeq(results', 1, Len(results)) = results
             /\ results'[Len(results')].asset_url = Head(doneQ)
             /\ mainPc' = "saving"
                <=> \/ Len(results') % CheckpointEvery = 0
                    \/ Len(results') = Cardinality(to_fetch)
       /\ SaveReturns
          => /\ ledgerLines' = <<"header">> \o results'
             /\ results' = results
             /\ (saveFrom = "loop" /\ Len(results) = Cardinality(to_fetch))
                => (mainPc' = "saving" /\ saveFrom' = "final")
       /\ (mainPc # "finished" /\ mainPc' = "finished")
          => /\ saveFrom = "final"
             /\ Len(results') = Cardinality(to_fetch)]_vars

\* a pass of three assets is over: a checkpoint after the second result, the
\* final save after the third
C33_Witness ==
    /\ mainPc = "finished"
    /\ Len(results) = CheckpointEvery + 1
    /\ ledgerLines = <<"header">> \o results

(***************************************************************************)
(* C34.  A phase flag (discovered, validated, media_fetched) is set once   *)
(* per completion of its phase and only after the phase's output is        *)
(* written: a flag that is true implies that its output file exists, and   *)
(* a phase that aborts or returns early leaves every flag as it was.       *)
(***************************************************************************)
\* the report and the accepted subset are written together; the subset always
\* has its header line
FlagsImplyOutputs ==
    /\ discovered => urls_file_exists
    /\ validated => v_valid_posts # <<>>
    /\ media_fetched => ledgerExists

C34_FlagsFollowCompletedPhases ==
    [][/\ FlagsImplyOutputs'
       /\ discovered' # discovered
          => (discovered' /\ d_pc # "finished" /\ d_pc' = "finished")
       /\ validated' # validated
          => (validated' /\ v_pc # "finished" /\ v_pc' = "finished")
       /\ media_fetched' # media_fetched
          => (media_fetched' /\ mainPc # "finished" /\ mainPc' = "finished")]_vars

(***************************************************************************)
(* C35.  With two or more admission slots, no two download tasks of a pass *)
(* that are in flight write to the same local file, and no local file is   *)
(* recorded as downloaded by two results, also for asset URLs that differ  *)
(* only in their query string.                                             *)
(***************************************************************************)
C35_OneWriterPerLocalFile ==
    /\ \A u, v \in InFlight :
          u # v => get_local_path_for_url(u) # get_local_path_for_url(v)
    /\ \A i, j \in 1..Len(results) :
          (i # j /\ results[i].status = "OK" /\ results[j].status = "OK")
          => results[i].local_path # results[j].local_path

(***************************************************************************)
(* C36.  In a validation run two different candidate URLs never share a    *)
(* cached-HTML path: the HTML parsed for a URL is a snapshot resolved for  *)
(* that URL.  The first run starts with an empty cache, so in it a URL     *)
(* whose turn comes finds no cached page.                                  *)
(***************************************************************************)
C36_CachedPageIsOfItsOwnURL ==
    (v_run = 1 /\ v_pc = "next") => html[LocalHtmlPath(CurrentURL)] = NoPage

(***************************************************************************)
(* C37.  A fetch pass that finds every asset marked as downloaded in the   *)
(* ledger, so that nothing is left to fetch, ends normally: it does not    *)
(* raise, leaves the ledger as it found it, and sets media_fetched.        *)
(***************************************************************************)
NothingToFetch == mainPc \in {"saving", "saving_rows"} /\ to_fetch = {}

C37_NothingToFetchEndsNormally ==
    [][(NothingToFetch /\ mainPc' \notin {"saving", "saving_rows", "killed"})
       => /\ mainPc' = "finished"
          /\ media_fetched'
          /\ ledgerLines' = ledgerSaved]_vars

(***************************************************************************)
(* C38.  Validation of an empty candidate list (discovered_urls.tsv with   *)
(* its header only, as discover writes it when no listed URL is a post)    *)
(* ends normally: it writes an empty report and accepted subset, sets      *)
(* validated and returns 0 without raising.                                *)
(***************************************************************************)
C38_EmptyListValidatesNormally ==
    [][(v_pc = "final" /\ urls_file_exists /\ v_urls = <<>> /\ v_pc' # "killed")
       => /\ v_pc' = "finished"
          /\ validated'
          /\ v_report' = <<>>
          /\ v_valid_posts' = <<"header">>]_vars

(***************************************************************************)
(*                    The result record of a download task                 *)
(***************************************************************************)
\* the counters and the timestamp of a returned result
AssetRecordAccounting(t) ==
    /\ 0 <= t.snapshots_tried
    /\ t.snapshots_tried <= t.snapshots_available
    /\ t.snapshots_available <= max_attempts
    /\ t.status = "OK" =>
          /\ t.snapshots_tried >= 1
          /\ t.success_timestamp = t.timestamps[t.snapshots_tried]
          /\ t.size
    /\ t.status \in {"FAIL", "SKIP"} => t.success_timestamp = 0

\* the local file of u holds bytes written in this pass
LocalFileWritten(u) == files[get_local_path_for_url(u)] \in {"partial", "complete"}

\* a task for the local path of u returned OK or has not returned yet
WrittenBySuccess(u) ==
    \E w \in AssetURLs :
        /\ get_local_path_for_url(w) = get_local_path_for_url(u)
        /\ \/ task[w].pc = "done" /\ task[w].status = "OK"
           \/ task[w].pc \in {"cdx", "sleep", "get", "reading", "writing"}

\* C39: every result a download task returns has
\* 0 <= snapshots_tried <= snapshots_available <= K; with status OK it has
\* snapshots_tried >= 1, the timestamp of the capture at position
\* snapshots_tried and a size; with status FAIL or SKIP it has no
\* success_timestamp; and in a single pass that started without local files
\* a local file holds written bytes only where a task for it returned OK
\* (or is still at work).
C39_AssetRecordInvariants ==
    \A u \in AssetURLs :
        task[u].pc = "done" =>
            /\ AssetRecordAccounting(task[u])
            /\ LocalFileWritten(u) => WrittenBySuccess(u)

\* the counters' part of C39 alone
C39_Accounting ==
    \A u \in AssetURLs : task[u].pc = "done" => AssetRecordAccounting(task[u])

(***************************************************************************)
(*                       Termination of a fetch pass                       *)
(***************************************************************************)
\* fetch_all has ended, normally or with an exception
PassOver == mainPc \in {"finished", "raised"}

\* the results of status st
WithStatus(st) == Cardinality({ k \in 1..Len(results) : results[k].status = st })

\* exactly one result per asset selected for fetching, each counted once in
\* the statistics
OneResultPerAsset ==
    /\ Len(results) = Cardinality(to_fetch)
    /\ \A u \in to_fetch :
          Cardinality({ k \in 1..Len(results) : results[k].asset_url = u }) = 1
    /\ Len(results) = WithStatus("OK") + WithStatus("FAIL") + WithStatus("SKIP")

\* the pass ends
C40_PassEnds == FetcherRunning ~> PassOver

\* C40: with every network request returning or timing out and nobody
\* interrupting, a fetch pass ends; every task that was submitted returns a
\* result and no task holds an admission slot at the end; and at the end
\* there is exactly one result per asset selected for fetching, with
\* total = success + failed + skipped.
C40_PassTerminatesWithAllResults ==
    /\ FetcherRunning ~> PassOver
    /\ \A u \in AssetURLs : task[u].pc = "pending" ~> task[u].pc = "done"
    /\ [](PassOver => InFlight = {} /\ OneResultPerAsset)

=============================================================================
